---- MODULE Spec2Model ----
(***************************************************************************)
(* Model of credonbrasil/handler.js: the resilient query executor          *)
(* (withRetries / queryWithTimeout) and the pre-registration -> partner    *)
(* promotion (adminTransformarParceiro) with the handlers that feed it.    *)
(*                                                                         *)
(* Two specifications:                                                     *)
(*   SpecExec  one call of queryWithTimeout against a store whose answer   *)
(*             and latency are arbitrary, with an explicit clock;          *)
(*   Spec      the HTTP handlers as concurrent requests over the tables,   *)
(*             every query being one suspension point.                     *)
(***************************************************************************)
EXTENDS Integers, Sequences, FiniteSets, TLC

VARIABLES
    \* ---- executor (SpecExec) ----
    qpc,         \* position of the queryWithTimeout call
    qi,          \* loop variable i of withRetries
    now,         \* clock, in units of 200 ms
    queryState,  \* queryPromise: NoErr (not created), Pending, or what it settled with
    timerState,  \* settlement of timeoutPromise: "none" | "pending" | "rejected"
    timerAt,     \* time at which the setTimeout of queryWithTimeout was armed
    wakeAt,      \* time at which the pending sleep(delay) resolves
    storeCalls,  \* number of pool.query calls issued
    storeNext,   \* what the store would answer to a further call
    attemptLog,  \* one record per invocation of fn by withRetries
    delays,      \* the delays slept, in order
    retryLog,    \* the delays announced by console.warn, in order
    lastErr,     \* withRetries' lastErr
    outcome,     \* what queryWithTimeout gave its caller
    \* ---- handlers (Spec) ----
    pre_cadastros,  \* table: id -> row
    parceiros,      \* table: id -> row
    nextPreId,      \* AUTO_INCREMENT of pre_cadastros
    nextParceiroId, \* AUTO_INCREMENT of parceiros
    reqs,           \* the requests: serial -> record
    started,        \* number of requests started so far
    abandoned,      \* statements whose wait was abandoned by the timeout, still in flight
    \* ---- handlers of operacoes (SpecOper) ----
    operacoes,       \* table: id -> row
    nextOperacaoId,  \* AUTO_INCREMENT of operacoes
    abandonedOper,   \* statements on operacoes whose wait was abandoned, still in flight
    \* ---- field normalizers (SpecNorm) ----
    norm             \* one inbound field value and what each path makes of it

execVars == <<qpc, qi, now, queryState, timerState, timerAt, wakeAt, storeCalls,
              storeNext, attemptLog, delays, retryLog, lastErr, outcome>>
dbVars == <<pre_cadastros, parceiros, nextPreId, nextParceiroId, reqs, started, abandoned>>
operVars == <<operacoes, nextOperacaoId, abandonedOper>>
normVars == <<norm>>
vars == <<execVars, dbVars, operVars, normVars>>

(***************************************************************************)
(* Bounds and program constants                                            *)
(***************************************************************************)
\* one unit of the clock is 200 ms
\* withRetries(fn, attempts = 2, initialDelay = 200): 200 ms is one unit
DefaultAttempts == 2
DefaultInitialDelay == 1
\* queryWithTimeout(..., timeoutMs = 4000): 4000 ms is 20 units
DefaultTimeoutMs == 20

(***************************************************************************)
(* Errors.  message is the text of err.message as a sequence of words; an  *)
(* error without a message has the empty sequence (err.message || '').     *)
(***************************************************************************)
NoErr == [code |-> "", message |-> <<>>]

\* a fulfilled query (rows / affectedRows), and a promise not settled yet
Ok == [code |-> "OK", message |-> <<>>]
Pending == [code |-> "PENDING", message |-> <<>>]

\* new Error('DB query timeout')
TimeoutError == [code |-> "", message |-> <<"DB", "query", "timeout">>]

\* what the store (driver) can reject a query with
StoreErrors ==
    { [code |-> "ETIMEDOUT",                message |-> <<"connect", "ETIMEDOUT">>],
      [code |-> "ECONNRESET",               message |-> <<"read", "econnreset">>],
      [code |-> "EHOSTUNREACH",             message |-> <<"connect", "EHOSTUNREACH">>],
      [code |-> "ER_LOCK_DEADLOCK",         message |-> <<"Deadlock", "found">>],
      [code |-> "PROTOCOL_CONNECTION_LOST", message |-> <<"Connection", "lost">>],
      [code |-> "PROTOCOL_CONNECTION_LOST", message |-> <<"PROTOCOL_CONNECTION_LOST">>],
      [code |-> "ER_DUP_ENTRY",             message |-> <<"Duplicate", "entry">>],
      [code |-> "ER_PARSE_ERROR",           message |-> <<"syntax", "error">>],
      [code |-> "ER_BAD_NULL_ERROR",        message |-> <<>>] }

\* the alternatives of the regular expression of withRetries
TransientPattern ==
    {"ETIMEDOUT", "ECONNRESET", "EHOSTUNREACH", "ER_LOCK_DEADLOCK", "PROTOCOL_CONNECTION_LOST"}

\* the /i flag: a word matches whatever its case
FoldCase(w) ==
    CASE w = "etimedout"  -> "ETIMEDOUT"
      [] w = "econnreset" -> "ECONNRESET"
      [] OTHER            -> w

\* /ETIMEDOUT|...|PROTOCOL_CONNECTION_LOST/i.test(err.message || '')
IsTransient(err) ==
    \E k \in 1..Len(err.message) : FoldCase(err.message[k]) \in TransientPattern

\* a loop that never breaks
BreaksLoopNever(err) == FALSE

\* if (!isTransient) break;
BreaksLoop(err) == ~IsTransient(err)

RECURSIVE Pow2(_)
Pow2(n) == IF n = 0 THEN 1 ELSE 2 * Pow2(n - 1)

\* a delay that does not grow
RetryDelayFlat(initialDelay, i) == initialDelay

\* const delay = initialDelay * Math.pow(2, i)
RetryDelay(initialDelay, i) == initialDelay * Pow2(i)

\* a loop that runs once more
LoopContinuesOnceMore(i, attempts) == i <= attempts + 1

\* for (...; i <= attempts; ...)
LoopContinues(i, attempts) == i <= attempts

(***************************************************************************)
(* Tables, rows and requests                                               *)
(***************************************************************************)
\* requests over the whole run, and requests in flight together
MaxRequests == 2
MaxInFlight == 2

Slots == 1..MaxInFlight

\* SQL NULL / a missing or empty JSON field
Null == "NULL"

\* an e-mail that /\S+@\S+\.\S+/ rejects, and a name of blanks only
BadEmail == "bad"
BlankName == "  "
\* outputs of Math.random().toString(36).slice(-8)
TempPasswords == {"t1", "t2"}
\* the rows of table admin
Admins == {1}

\* bcrypt.hash(plain, 10), and bcrypt.compare(plain, hash)
Hash(plain) == <<"bcrypt", plain>>
Verify(plain, hash) == hash = Hash(plain)

NoHash == <<"bcrypt", Null>>

EmptyTable == [i \in {} |-> Null]

NullPre ==
    [nome_completo |-> Null, cpf |-> Null, email |-> Null, cnpj |-> Null,
     resp_tipo_cnpj |-> Null, resp_perfil_clientes |-> Null, status_elegibilidade |-> Null]

NullParceiro ==
    [nome |-> Null, cpf |-> Null, email |-> Null, senha |-> NoHash, senha_temp |-> Null,
     cnpj |-> Null, resp_tipo_cnpj |-> Null, resp_perfil_clientes |-> Null,
     status_elegibilidade |-> Null, by |-> 0]

NullBody ==
    [adminId |-> 0, preCadastroId |-> 0, nome |-> Null, cpf |-> Null, email |-> Null,
     senha |-> Null, cnpj |-> Null, resp_tipo_cnpj |-> Null, resp_perfil_clientes |-> Null,
     resp_volume_indicacoes |-> Null,
     parceiro_id |-> 0, operacao_id |-> 0, operacaoId |-> 0,
     tipo_operacao |-> Null, status_operacao |-> Null, status |-> Null, parceiroId |-> 0,
     userId |-> 0, novaSenha |-> Null]

\* a partner as a response shows it (senha Null: the column is not returned)
NullView == [id |-> 0, nome |-> Null, cpf |-> Null, email |-> Null, senha |-> Null]

NoResp ==
    [status |-> 0, message |-> "", field |-> Null, existingParceiroId |-> 0,
     parceiroId |-> 0, senhaTemporaria |-> Null, error |-> "",
     id |-> 0, operacaoStatus |-> Null, preCadastros |-> EmptyTable, total |-> 0,
     parceiros |-> EmptyTable, parceiro |-> NullView, user |-> NullView]

IdleReq ==
    [op |-> "none", pc |-> "idle", serial |-> 0, body |-> NullBody, preCadastro |-> NullPre,
     senhaTemp |-> Null, insertId |-> 0, writes |-> {}, resp |-> NoResp, rows |-> EmptyTable]

(***************************************************************************)
(* JavaScript values of a request body field.  A string is its sequence of *)
(* characters; a finite number is its sign, integer part and the digits of *)
(* its fraction (no trailing zero), so that equal numbers are equal        *)
(* records; NaN is a value of its own.                                     *)
(***************************************************************************)
JsNull == [t |-> "null", b |-> FALSE, neg |-> FALSE, ip |-> 0, fp |-> << >>, s |-> << >>]
Undefined == [JsNull EXCEPT !.t = "undefined"]
NaN == [JsNull EXCEPT !.t = "NaN"]
Bool(b) == [JsNull EXCEPT !.t = "boolean", !.b = b]
Str(s) == [JsNull EXCEPT !.t = "string", !.s = s]

RECURSIVE DropTrailingZeros(_)
DropTrailingZeros(fp) ==
    IF fp # << >> /\ fp[Len(fp)] = "0" THEN DropTrailingZeros(SubSeq(fp, 1, Len(fp) - 1)) ELSE fp

\* the number with this sign, integer part and fraction digits; -0 equals 0
Num(neg, ip, fp) ==
    LET f == DropTrailingZeros(fp)
    IN  [JsNull EXCEPT !.t = "number", !.neg = neg /\ ~(ip = 0 /\ f = << >>), !.ip = ip, !.fp = f]

\* no field under normalization
NoNorm == [pc |-> "idle", field |-> Null, val |-> Undefined, criado |-> Undefined,
           atualizado |-> Undefined, again |-> Undefined]

(***************************************************************************)
(* The executor: one call of queryWithTimeout                              *)
(***************************************************************************)
\* empty tables, no request yet
DbIdle ==
    /\ pre_cadastros = EmptyTable
    /\ parceiros = EmptyTable
    /\ nextPreId = 1
    /\ nextParceiroId = 1
    /\ reqs = [s \in Slots |-> IdleReq]
    /\ started = 0
    /\ abandoned = {}
    /\ operacoes = EmptyTable
    /\ nextOperacaoId = 1
    /\ abandonedOper = {}

ExecIdle ==
    /\ qpc = "idle"
    /\ qi = 0
    /\ now = 0
    /\ queryState = NoErr
    /\ timerState = "none"
    /\ timerAt = 0
    /\ wakeAt = 0
    /\ storeCalls = 0
    /\ storeNext = Ok
    /\ attemptLog = << >>
    /\ delays = << >>
    /\ retryLog = << >>
    /\ lastErr = NoErr
    /\ outcome = NoErr

\* the store starts healthy or with any fault
InitExec ==
    /\ DbIdle
    /\ norm = NoNorm
    /\ qpc = "idle"
    /\ qi = 0
    /\ now = 0
    /\ queryState = NoErr
    /\ timerState = "none"
    /\ timerAt = 0
    /\ wakeAt = 0
    /\ storeCalls = 0
    /\ storeNext \in {Ok} \cup StoreErrors
    /\ attemptLog = << >>
    /\ delays = << >>
    /\ retryLog = << >>
    /\ lastErr = NoErr
    /\ outcome = NoErr

\* what Promise.race([queryPromise, timeoutPromise]) settles with when it is
\* created: the first promise of the array that is already settled
RaceNow(q, t) ==
    IF q # NoErr /\ q # Pending THEN q
    ELSE IF t = "rejected" THEN TimeoutError
    ELSE Pending

\* one invocation of fn by the loop of withRetries, started at loop index i
\* with the race settling (now or later) with res
AttemptRecord(i, res) ==
    [index |-> i, start |-> now, settled |-> now, timerArmedAt |-> timerAt,
     storeCall |-> storeCalls, result |-> res]

\* the body of the loop of withRetries once the await of fn() settles with res
\* at loop index i; log is the attempt log with this attempt's result filled in
AfterAttempt(i, res, log) ==
    /\ attemptLog' = log
    /\ qi' = i
    /\ IF res = Ok
       THEN /\ qpc' = "returned"
            /\ outcome' = Ok
            /\ UNCHANGED <<lastErr, delays, retryLog, wakeAt>>
       ELSE /\ lastErr' = res
            /\ IF BreaksLoop(res)
               THEN /\ qpc' = "thrown"
                    /\ outcome' = res
                    /\ UNCHANGED <<delays, retryLog, wakeAt>>
               ELSE /\ retryLog' = Append(retryLog, RetryDelay(DefaultInitialDelay, i))
                    /\ delays' = Append(delays, RetryDelay(DefaultInitialDelay, i))
                    /\ wakeAt' = now + RetryDelay(DefaultInitialDelay, i)
                    /\ qpc' = "sleeping"
                    /\ UNCHANGED outcome

\* the pending attempt settles now with res
SetLast(log, res) == [log EXCEPT ![Len(log)].result = res, ![Len(log)].settled = now]

\* queryWithTimeout is called: the query is issued and the timer armed, once;
\* withRetries then invokes fn for i = 0
QueryWithTimeout ==
    /\ qpc = "idle"
    /\ storeCalls' = storeCalls + 1
    /\ queryState' = Pending
    /\ timerState' = "pending"
    /\ timerAt' = now
    /\ qi' = 0
    /\ qpc' = "racing"
    /\ attemptLog' = <<[index |-> 0, start |-> now, settled |-> now, timerArmedAt |-> now,
                        storeCall |-> storeCalls + 1, result |-> Pending]>>
    /\ UNCHANGED <<now, wakeAt, storeNext, delays, retryLog, lastErr, outcome>>
    /\ UNCHANGED <<dbVars, operVars, normVars>>

\* the store settles queryPromise; afterwards its fault has cleared or not
StoreAnswers ==
    /\ queryState = Pending
    /\ queryState' = storeNext
    /\ storeNext' \in {Ok, storeNext}
    /\ IF qpc = "racing"
       THEN AfterAttempt(qi, storeNext, SetLast(attemptLog, storeNext))
       ELSE UNCHANGED <<qpc, qi, attemptLog, lastErr, delays, retryLog, wakeAt, outcome>>
    /\ UNCHANGED <<now, timerState, timerAt, storeCalls>>
    /\ UNCHANGED <<dbVars, operVars, normVars>>

TimerDue == timerState = "pending" /\ now >= timerAt + DefaultTimeoutMs

\* the setTimeout callback rejects timeoutPromise
TimerFires ==
    /\ TimerDue
    /\ timerState' = "rejected"
    /\ IF qpc = "racing"
       THEN AfterAttempt(qi, TimeoutError, SetLast(attemptLog, TimeoutError))
       ELSE UNCHANGED <<qpc, qi, attemptLog, lastErr, delays, retryLog, wakeAt, outcome>>
    /\ UNCHANGED <<now, queryState, timerAt, storeCalls, storeNext>>
    /\ UNCHANGED <<dbVars, operVars, normVars>>

SleepDue == qpc = "sleeping" /\ now >= wakeAt

\* sleep(delay) resolves: i++, and either fn is invoked again or the loop ends
\* and lastErr is thrown
Wake ==
    /\ SleepDue
    /\ IF LoopContinues(qi + 1, DefaultAttempts)
       THEN LET res == RaceNow(queryState, timerState) IN
            IF res = Pending
            THEN /\ qpc' = "racing"
                 /\ qi' = qi + 1
                 /\ attemptLog' = Append(attemptLog, AttemptRecord(qi + 1, Pending))
                 /\ UNCHANGED <<lastErr, delays, retryLog, wakeAt, outcome>>
            ELSE AfterAttempt(qi + 1, res, Append(attemptLog, AttemptRecord(qi + 1, res)))
       ELSE /\ qpc' = "thrown"
            /\ outcome' = lastErr
            /\ qi' = qi + 1
            /\ UNCHANGED <<attemptLog, lastErr, delays, retryLog, wakeAt>>
    /\ UNCHANGED <<now, queryState, timerState, timerAt, storeCalls, storeNext>>
    /\ UNCHANGED <<dbVars, operVars, normVars>>

\* time passes while something is awaited and nothing is due
Tick ==
    /\ qpc \in {"racing", "sleeping"} \/ timerState = "pending"
    /\ ~TimerDue
    /\ ~SleepDue
    /\ now' = now + 1
    /\ UNCHANGED <<qpc, qi, queryState, timerState, timerAt, wakeAt, storeCalls, storeNext,
                   attemptLog, delays, retryLog, lastErr, outcome>>
    /\ UNCHANGED <<dbVars, operVars, normVars>>

NextExec ==
    \/ QueryWithTimeout
    \/ StoreAnswers
    \/ TimerFires
    \/ Wake
    \/ Tick

SpecExec == InitExec /\ [][NextExec]_vars

(***************************************************************************)
(* The handlers.  A request occupies a slot from its start to its          *)
(* response; every queryWithTimeout is one step.  A query ends in one of   *)
(* three ways for the handler: "ok" (executed, result returned),           *)
(* "rejected" (the store refused it, nothing executed, the error is        *)
(* thrown) and "lost" (the wait ended with an error -- the timer of        *)
(* queryWithTimeout fired or the connection dropped -- while the statement *)
(* is still with the store, which may execute it later).                   *)
(***************************************************************************)
\* { statusCode, body: { message, ... } }
Resp(status, message) == [NoResp EXCEPT !.status = status, !.message = message]

\* the catch block of a handler: 500 with err.message
Resp500(message, how) ==
    [NoResp EXCEPT !.status = 500, !.message = message,
                   !.error = IF how = "lost" THEN "DB query timeout" ELSE "store error"]

\* how a query can fail for the handler; for a SELECT the two ways differ only
\* in the text of err.message
Failures == {"rejected", "lost"}
ReadFailures == {"lost"}

\* a written statement whose wait was given up
Statement(kind, id, pre, parceiro) ==
    [kind |-> kind, id |-> id, pre |-> pre, parceiro |-> parceiro]

Insert(table, id, row) == [i \in DOMAIN table \cup {id} |-> IF i = id THEN row ELSE table[i]]
Delete(table, id) == [i \in DOMAIN table \ {id} |-> table[i]]

InFlight == {s \in Slots : reqs[s].pc \notin {"idle", "done"}}
FreeSlots == {s \in Slots : reqs[s].pc \in {"idle", "done"}}

\* an invocation starts in the first free slot
CanStart(s) ==
    /\ started < MaxRequests
    /\ s \in FreeSlots
    /\ \A t \in FreeSlots : s <= t

Begin(s, op, body, pc, resp) ==
    /\ started' = started + 1
    /\ reqs' = [reqs EXCEPT ![s] = [IdleReq EXCEPT !.op = op, !.pc = pc, !.serial = started + 1,
                                                    !.body = body, !.resp = resp]]

Done(s, resp) == reqs' = [reqs EXCEPT ![s].pc = "done", ![s].resp = resp]

(***************************************************************************)
(* POST /parceiros/cadastro                                                *)
(***************************************************************************)
CadastroBodies ==
    { [NullBody EXCEPT !.nome = "n", !.cpf = i[1], !.email = i[2], !.senha = "s"] :
        i \in { <<"c1", "e1">>, <<"c2", "e2">>, <<Null, "e1">> } }

\* body parsing and the required-field check
CadastroStart(s) ==
    /\ CanStart(s)
    /\ \E body \in CadastroBodies :
         IF body.nome = Null \/ body.cpf = Null \/ body.email = Null \/ body.senha = Null
         THEN Begin(s, "cadastro", body, "done", Resp(400, "Campos obrigatorios ausentes"))
         ELSE Begin(s, "cadastro", body, "c_check", NoResp)
    /\ UNCHANGED <<pre_cadastros, parceiros, nextPreId, nextParceiroId, abandoned>>
    /\ UNCHANGED <<execVars, operVars, normVars>>

\* SELECT id FROM parceiros WHERE cpf = ? OR email = ? LIMIT 1
ParceirosWith(cpf, email) ==
    {i \in DOMAIN parceiros : parceiros[i].cpf = cpf \/ parceiros[i].email = email}

CadastroCheck(s) ==
    /\ reqs[s].op = "cadastro" /\ reqs[s].pc = "c_check"
    /\ \/ \E how \in ReadFailures : Done(s, Resp500("Erro interno no servidor", how))
       \/ IF ParceirosWith(reqs[s].body.cpf, reqs[s].body.email) # {}
          THEN Done(s, Resp(409, "CPF ou e-mail ja cadastrado"))
          ELSE reqs' = [reqs EXCEPT ![s].pc = "c_insert"]
    /\ UNCHANGED <<pre_cadastros, parceiros, nextPreId, nextParceiroId, started, abandoned>>
    /\ UNCHANGED <<execVars, operVars, normVars>>

\* INSERT INTO parceiros (nome, cpf, email, senha) VALUES (?, ?, ?, ?)
CadastroRow(body, serial) ==
    [NullParceiro EXCEPT !.nome = body.nome, !.cpf = body.cpf, !.email = body.email,
                         !.senha = Hash(body.senha), !.by = serial]

CadastroInsert(s) ==
    /\ reqs[s].op = "cadastro" /\ reqs[s].pc = "c_insert"
    /\ LET row == CadastroRow(reqs[s].body, reqs[s].serial) IN
       \/ /\ parceiros' = Insert(parceiros, nextParceiroId, row)
          /\ nextParceiroId' = nextParceiroId + 1
          /\ reqs' = [reqs EXCEPT ![s].pc = "done", ![s].insertId = nextParceiroId,
                                  ![s].writes = @ \cup {"insert_parceiro"},
                                  ![s].resp = [Resp(201, "Parceiro cadastrado com sucesso")
                                                  EXCEPT !.parceiroId = nextParceiroId]]
          /\ UNCHANGED abandoned
       \/ /\ Done(s, Resp500("Erro interno no servidor", "rejected"))
          /\ UNCHANGED <<parceiros, nextParceiroId, abandoned>>
       \/ /\ reqs' = [reqs EXCEPT ![s].pc = "done", ![s].writes = @ \cup {"insert_parceiro"},
                                  ![s].resp = Resp500("Erro interno no servidor", "lost")]
          /\ abandoned' = abandoned \cup {Statement("insert_parceiro", reqs[s].serial, NullPre, row)}
          /\ UNCHANGED <<parceiros, nextParceiroId>>
    /\ UNCHANGED <<pre_cadastros, nextPreId, started>>
    /\ UNCHANGED <<execVars, operVars, normVars>>

(***************************************************************************)
(* POST /parceiros/pre-cadastro                                            *)
(***************************************************************************)
\* a request body of preCadastro
PreCadastroBody(a, i) ==
    [NullBody EXCEPT !.resp_tipo_cnpj = a[1], !.resp_perfil_clientes = a[2],
                     !.resp_volume_indicacoes = a[3],
                     !.nome = i[1], !.cpf = i[2], !.email = i[3], !.cnpj = i[4]]

\* the screening answers (resp_tipo_cnpj, resp_perfil_clientes,
\* resp_volume_indicacoes) and who fills in the form (name, cpf, e-mail, cnpj)
PreCadastroBodies ==
    { PreCadastroBody(<<"SIM", "SIM", "v">>, i) :
        i \in { <<"n", "c1", "e1", Null>>, <<"n", "c1", "e2", Null>>,
                <<"n", "c2", "e1", "j1">>, <<Null, Null, Null, Null>> } }
        \cup { PreCadastroBody(<<"NAO", "SIM", "v">>, <<"n", "c1", "e1", Null>>),
               PreCadastroBody(<<"SIM", "NAO", "v">>, <<"n", "c2", "e2", Null>>),
               PreCadastroBody(<<"SIM", "SIM", Null>>, <<"n", "c1", "e1", Null>>),
               PreCadastroBody(<<"SIM", "SIM", "v">>, <<BlankName, "c1", "e1", Null>>),
               PreCadastroBody(<<"SIM", "SIM", "v">>, <<"n", "c1", BadEmail, Null>>) }

\* the eligibility rule of preCadastro
EligibilityStatus(resp_tipo_cnpj, resp_perfil_clientes) ==
    IF resp_tipo_cnpj = "NAO" \/ resp_perfil_clientes = "NAO" THEN "reprovado" ELSE "pre-aprovado"

\* body parsing and the validations that precede the first query
PreCadastroStart(s) ==
    /\ CanStart(s)
    /\ \E body \in PreCadastroBodies :
         IF body.resp_tipo_cnpj = Null \/ body.resp_perfil_clientes = Null
              \/ body.resp_volume_indicacoes = Null
         THEN Begin(s, "preCadastro", body, "done", Resp(400, "Dados de triagem incompletos"))
         ELSE IF body.nome = BlankName
         THEN Begin(s, "preCadastro", body, "done", Resp(400, "Nome completo nao pode estar vazio"))
         ELSE IF body.email = BadEmail
         THEN Begin(s, "preCadastro", body, "done", Resp(400, "E-mail invalido"))
         ELSE IF body.cpf # Null \/ body.cnpj # Null
         THEN Begin(s, "preCadastro", body, "pc_check", NoResp)
         ELSE Begin(s, "preCadastro", body, "pc_insert", NoResp)
    /\ UNCHANGED <<pre_cadastros, parceiros, nextPreId, nextParceiroId, abandoned>>
    /\ UNCHANGED <<execVars, operVars, normVars>>

\* SELECT id FROM pre_cadastros WHERE (cpf = ? AND cpf IS NOT NULL)
\*                                 OR (cnpj = ? AND cnpj IS NOT NULL) LIMIT 1
PreCadastrosWith(cpf, cnpj) ==
    {i \in DOMAIN pre_cadastros :
        \/ pre_cadastros[i].cpf # Null /\ pre_cadastros[i].cpf = cpf
        \/ pre_cadastros[i].cnpj # Null /\ pre_cadastros[i].cnpj = cnpj}

PreCadastroCheck(s) ==
    /\ reqs[s].op = "preCadastro" /\ reqs[s].pc = "pc_check"
    /\ \/ \E how \in ReadFailures : Done(s, Resp500("Erro interno", how))
       \/ IF PreCadastrosWith(reqs[s].body.cpf, reqs[s].body.cnpj) # {}
          THEN Done(s, Resp(409, "CPF ou CNPJ ja possui uma solicitacao em analise."))
          ELSE reqs' = [reqs EXCEPT ![s].pc = "pc_insert"]
    /\ UNCHANGED <<pre_cadastros, parceiros, nextPreId, nextParceiroId, started, abandoned>>
    /\ UNCHANGED <<execVars, operVars, normVars>>

\* the values of INSERT INTO pre_cadastros
PreCadastroRow(body) ==
    [nome_completo |-> body.nome, cpf |-> body.cpf, email |-> body.email, cnpj |-> body.cnpj,
     resp_tipo_cnpj |-> body.resp_tipo_cnpj, resp_perfil_clientes |-> body.resp_perfil_clientes,
     status_elegibilidade |-> EligibilityStatus(body.resp_tipo_cnpj, body.resp_perfil_clientes)]

PreCadastroInsert(s) ==
    /\ reqs[s].op = "preCadastro" /\ reqs[s].pc = "pc_insert"
    /\ LET row == PreCadastroRow(reqs[s].body) IN
       \/ /\ pre_cadastros' = Insert(pre_cadastros, nextPreId, row)
          /\ nextPreId' = nextPreId + 1
          /\ reqs' = [reqs EXCEPT ![s].pc = "done", ![s].insertId = nextPreId,
                                  ![s].writes = @ \cup {"insert_pre"},
                                  ![s].resp = Resp(201, "Pre-cadastro realizado com sucesso")]
          /\ UNCHANGED abandoned
       \/ /\ Done(s, Resp500("Erro interno", "rejected"))
          /\ UNCHANGED <<pre_cadastros, nextPreId, abandoned>>
       \/ /\ reqs' = [reqs EXCEPT ![s].pc = "done", ![s].writes = @ \cup {"insert_pre"},
                                  ![s].resp = Resp500("Erro interno", "lost")]
          /\ abandoned' = abandoned \cup {Statement("insert_pre", reqs[s].serial, row, NullParceiro)}
          /\ UNCHANGED <<pre_cadastros, nextPreId>>
    /\ UNCHANGED <<parceiros, nextParceiroId, started>>
    /\ UNCHANGED <<execVars, operVars, normVars>>

(***************************************************************************)
(* POST /admin/pre-cadastros/transformar-parceiro                          *)
(***************************************************************************)
TransformarBodies ==
    { [NullBody EXCEPT !.adminId = 1, !.preCadastroId = k] : k \in 0..nextPreId }
        \cup { [NullBody EXCEPT !.adminId = a, !.preCadastroId = 1] : a \in {0, 9} }

\* body parsing and the required-field check
TransformarStart(s) ==
    /\ CanStart(s)
    /\ \E body \in TransformarBodies :
         IF body.adminId = 0 \/ body.preCadastroId = 0
         THEN Begin(s, "transformar", body, "done",
                    Resp(400, "adminId e preCadastroId sao obrigatorios"))
         ELSE Begin(s, "transformar", body, "t_admin", NoResp)
    /\ UNCHANGED <<pre_cadastros, parceiros, nextPreId, nextParceiroId, abandoned>>
    /\ UNCHANGED <<execVars, operVars, normVars>>

\* SELECT id FROM admin WHERE id = ? LIMIT 1
TransformarAdmin(s) ==
    /\ reqs[s].op = "transformar" /\ reqs[s].pc = "t_admin"
    /\ \/ \E how \in ReadFailures : Done(s, Resp500("Erro interno", how))
       \/ IF reqs[s].body.adminId \notin Admins
          THEN Done(s, Resp(403, "Acesso negado"))
          ELSE reqs' = [reqs EXCEPT ![s].pc = "t_load"]
    /\ UNCHANGED <<pre_cadastros, parceiros, nextPreId, nextParceiroId, started, abandoned>>
    /\ UNCHANGED <<execVars, operVars, normVars>>

\* a check that finds every record complete
IncompleteRecordNever(preCadastro) == FALSE

\* !preCadastro.nome_completo || !preCadastro.cpf || !preCadastro.email
IncompleteRecord(preCadastro) ==
    preCadastro.nome_completo = Null \/ preCadastro.cpf = Null \/ preCadastro.email = Null

\* SELECT ... FROM pre_cadastros WHERE id = ? LIMIT 1, and the check of the
\* fields a partner needs
TransformarLoad(s) ==
    /\ reqs[s].op = "transformar" /\ reqs[s].pc = "t_load"
    /\ LET id == reqs[s].body.preCadastroId IN
       \/ \E how \in ReadFailures : Done(s, Resp500("Erro interno", how))
       \/ IF id \notin DOMAIN pre_cadastros
          THEN Done(s, Resp(404, "Pre-cadastro nao encontrado"))
          ELSE IF IncompleteRecord(pre_cadastros[id])
          THEN Done(s, Resp(400, "Pre-cadastro incompleto"))
          ELSE reqs' = [reqs EXCEPT ![s].pc = "t_check", ![s].preCadastro = pre_cadastros[id]]
    /\ UNCHANGED <<pre_cadastros, parceiros, nextPreId, nextParceiroId, started, abandoned>>
    /\ UNCHANGED <<execVars, operVars, normVars>>

\* a handler that names the other field
ConflictFieldSwapped(existing, preCadastro) ==
    IF existing.cpf = preCadastro.cpf THEN "email" ELSE "cpf"

\* field: existing.cpf === preCadastro.cpf ? 'cpf' : 'email'
ConflictField(existing, preCadastro) ==
    IF existing.cpf = preCadastro.cpf THEN "cpf" ELSE "email"

\* SELECT id, nome, cpf, email FROM parceiros WHERE cpf = ? OR email = ? LIMIT 1
\* (any of the matching rows), then the temporary password
TransformarCheck(s) ==
    /\ reqs[s].op = "transformar" /\ reqs[s].pc = "t_check"
    /\ LET pre == reqs[s].preCadastro IN
       \/ \E how \in ReadFailures : Done(s, Resp500("Erro interno", how))
       \/ /\ ParceirosWith(pre.cpf, pre.email) # {}
          /\ \E e \in ParceirosWith(pre.cpf, pre.email) :
               Done(s, [Resp(409, "Ja existe um parceiro") EXCEPT
                           !.existingParceiroId = e,
                           !.field = ConflictField(parceiros[e], pre)])
       \/ /\ ParceirosWith(pre.cpf, pre.email) = {}
          /\ \E t \in TempPasswords :
               reqs' = [reqs EXCEPT ![s].pc = "t_insert", ![s].senhaTemp = t]
    /\ UNCHANGED <<pre_cadastros, parceiros, nextPreId, nextParceiroId, started, abandoned>>
    /\ UNCHANGED <<execVars, operVars, normVars>>

\* a handler that hashes the wrong value
TransformarRowWrongHash(preCadastro, senhaTemp, serial) ==
    [nome |-> preCadastro.nome_completo, cpf |-> preCadastro.cpf, email |-> preCadastro.email,
     senha |-> Hash(preCadastro.cpf), senha_temp |-> senhaTemp, cnpj |-> preCadastro.cnpj,
     resp_tipo_cnpj |-> preCadastro.resp_tipo_cnpj,
     resp_perfil_clientes |-> preCadastro.resp_perfil_clientes,
     status_elegibilidade |-> "aprovado", by |-> serial]

\* insertValues, with hash = bcrypt.hash(senhaTemp, 10)
TransformarRow(preCadastro, senhaTemp, serial) ==
    [nome |-> preCadastro.nome_completo, cpf |-> preCadastro.cpf, email |-> preCadastro.email,
     senha |-> Hash(senhaTemp), senha_temp |-> senhaTemp, cnpj |-> preCadastro.cnpj,
     resp_tipo_cnpj |-> preCadastro.resp_tipo_cnpj,
     resp_perfil_clientes |-> preCadastro.resp_perfil_clientes,
     status_elegibilidade |-> "aprovado", by |-> serial]

\* INSERT INTO parceiros (...) VALUES (...)
TransformarInsert(s) ==
    /\ reqs[s].op = "transformar" /\ reqs[s].pc = "t_insert"
    /\ LET row == TransformarRow(reqs[s].preCadastro, reqs[s].senhaTemp, reqs[s].serial) IN
       \/ /\ parceiros' = Insert(parceiros, nextParceiroId, row)
          /\ nextParceiroId' = nextParceiroId + 1
          /\ reqs' = [reqs EXCEPT ![s].pc = "t_delete", ![s].insertId = nextParceiroId,
                                  ![s].writes = @ \cup {"insert_parceiro"}]
          /\ UNCHANGED abandoned
       \/ /\ Done(s, Resp500("Erro interno", "rejected"))
          /\ UNCHANGED <<parceiros, nextParceiroId, abandoned>>
       \/ /\ reqs' = [reqs EXCEPT ![s].pc = "done", ![s].writes = @ \cup {"insert_parceiro"},
                                  ![s].resp = Resp500("Erro interno", "lost")]
          /\ abandoned' = abandoned \cup {Statement("insert_parceiro", reqs[s].serial, NullPre, row)}
          /\ UNCHANGED <<parceiros, nextParceiroId>>
    /\ UNCHANGED <<pre_cadastros, nextPreId, started>>
    /\ UNCHANGED <<execVars, operVars, normVars>>

\* DELETE FROM pre_cadastros WHERE id = ?
DeletePreCadastro(table, id) == Delete(table, id)

\* the DELETE and the success response
TransformarDelete(s) ==
    /\ reqs[s].op = "transformar" /\ reqs[s].pc = "t_delete"
    /\ LET id == reqs[s].body.preCadastroId IN
       \/ /\ pre_cadastros' = DeletePreCadastro(pre_cadastros, id)
          /\ reqs' = [reqs EXCEPT ![s].pc = "done", ![s].writes = @ \cup {"delete_pre"},
                                  ![s].resp = [Resp(200, "Pre-cadastro transformado em parceiro com sucesso")
                                                  EXCEPT !.parceiroId = reqs[s].insertId,
                                                         !.senhaTemporaria = reqs[s].senhaTemp]]
          /\ UNCHANGED abandoned
       \/ /\ Done(s, Resp500("Erro interno", "rejected"))
          /\ UNCHANGED <<pre_cadastros, abandoned>>
       \/ /\ reqs' = [reqs EXCEPT ![s].pc = "done", ![s].writes = @ \cup {"delete_pre"},
                                  ![s].resp = Resp500("Erro interno", "lost")]
          /\ abandoned' = abandoned \cup {Statement("delete_pre", id, NullPre, NullParceiro)}
          /\ UNCHANGED pre_cadastros
    /\ UNCHANGED <<parceiros, nextPreId, nextParceiroId, started>>
    /\ UNCHANGED <<execVars, operVars, normVars>>

(***************************************************************************)
(* The store executes a statement whose wait was given up                  *)
(***************************************************************************)
StoreExecutesAbandoned ==
    /\ \E st \in abandoned :
         /\ abandoned' = abandoned \ {st}
         /\ CASE st.kind = "insert_parceiro" ->
                   /\ parceiros' = Insert(parceiros, nextParceiroId, st.parceiro)
                   /\ nextParceiroId' = nextParceiroId + 1
                   /\ UNCHANGED <<pre_cadastros, nextPreId>>
              [] st.kind = "insert_pre" ->
                   /\ pre_cadastros' = Insert(pre_cadastros, nextPreId, st.pre)
                   /\ nextPreId' = nextPreId + 1
                   /\ UNCHANGED <<parceiros, nextParceiroId>>
              [] st.kind = "update_pre" ->
                   /\ pre_cadastros' = [i \in DOMAIN pre_cadastros |->
                          IF i = st.id
                          THEN [pre_cadastros[i] EXCEPT
                                  !.status_elegibilidade = st.pre.status_elegibilidade]
                          ELSE pre_cadastros[i]]
                   /\ UNCHANGED <<parceiros, nextPreId, nextParceiroId>>
              [] st.kind = "update_senha" ->
                   /\ parceiros' = [i \in DOMAIN parceiros |->
                          IF i = st.id
                          THEN [parceiros[i] EXCEPT !.senha = st.parceiro.senha]
                          ELSE parceiros[i]]
                   /\ UNCHANGED <<pre_cadastros, nextPreId, nextParceiroId>>
              [] OTHER ->
                   /\ pre_cadastros' = DeletePreCadastro(pre_cadastros, st.id)
                   /\ UNCHANGED <<parceiros, nextPreId, nextParceiroId>>
    /\ UNCHANGED <<reqs, started>>
    /\ UNCHANGED <<execVars, operVars, normVars>>

\* the tables when the run starts: what earlier, completed preCadastro and
\* cadastro requests left (rows of earlier requests carry by = 0)
InitialPreCadastros ==
    { EmptyTable,
      Insert(EmptyTable, 1, PreCadastroRow(PreCadastroBody(<<"SIM", "SIM", "v">>, <<"n", "c1", "e2", Null>>))) }

InitialParceiros ==
    { EmptyTable } \cup
    { Insert(EmptyTable, 1, CadastroRow(b, 0)) : b \in {c \in CadastroBodies : c.cpf # Null} }

Init ==
    /\ ExecIdle
    /\ norm = NoNorm
    /\ pre_cadastros \in InitialPreCadastros
    /\ parceiros \in InitialParceiros
    /\ nextPreId = Cardinality(DOMAIN pre_cadastros) + 1
    /\ nextParceiroId = Cardinality(DOMAIN parceiros) + 1
    /\ reqs = [s \in Slots |-> IdleReq]
    /\ started = 0
    /\ abandoned = {}
    /\ operacoes = EmptyTable
    /\ nextOperacaoId = 1
    /\ abandonedOper = {}

Next ==
    \/ \E s \in Slots : CadastroStart(s)
    \/ \E s \in Slots : CadastroCheck(s)
    \/ \E s \in Slots : CadastroInsert(s)
    \/ \E s \in Slots : PreCadastroStart(s)
    \/ \E s \in Slots : PreCadastroCheck(s)
    \/ \E s \in Slots : PreCadastroInsert(s)
    \/ \E s \in Slots : TransformarStart(s)
    \/ \E s \in Slots : TransformarAdmin(s)
    \/ \E s \in Slots : TransformarLoad(s)
    \/ \E s \in Slots : TransformarCheck(s)
    \/ \E s \in Slots : TransformarInsert(s)
    \/ \E s \in Slots : TransformarDelete(s)
    \/ StoreExecutesAbandoned

Spec == Init /\ [][Next]_vars

(***************************************************************************)
(* The handlers of operacoes                                               *)
(***************************************************************************)
\* the values adminUpdateOperacaoStatus allows
StatusOperacao ==
    {"rascunho", "recebida", "em_analise", "pendencia_docs", "aprovada", "recusada", "cancelada"}

\* String(v).toLowerCase()
ToLowerCase(v) ==
    CASE v = "RECEBIDA"    -> "recebida"
      [] v = "HOME_EQUITY" -> "home_equity"
      [] OTHER             -> v

NullOperacao ==
    [parceiro_id |-> 0, tipo_operacao |-> Null, status_operacao |-> Null, enviado_em |-> 0]

\* the fields an UPDATE of operacoes sets (Null, 0: not in the SET list)
NoSet == [tipo_operacao |-> Null, status_operacao |-> Null, enviado_em |-> 0]

\* what column status_operacao holds after a write of v: the value itself, or
\* the empty string when the column is an enumeration that has no such member
\* (the store may also refuse the statement, which is outcome "rejected")
ColumnStatus(v) == IF v \in StatusOperacao THEN {v} ELSE {v, ""}

\* an UPDATE that writes NULL to the type when the request has none
UpdateOperacaoClearsAbsent(table, id, parceiro_id, set, stored) ==
    [i \in DOMAIN table |->
        IF i = id /\ (parceiro_id = 0 \/ table[i].parceiro_id = parceiro_id)
        THEN [table[i] EXCEPT
                !.tipo_operacao = set.tipo_operacao,
                !.status_operacao = IF set.status_operacao # Null THEN stored ELSE @,
                !.enviado_em = IF set.enviado_em # 0 THEN set.enviado_em ELSE @]
        ELSE table[i]]

\* UPDATE operacoes SET ... WHERE id = ? [AND parceiro_id = ?]
UpdateOperacao(table, id, parceiro_id, set, stored) ==
    [i \in DOMAIN table |->
        IF i = id /\ (parceiro_id = 0 \/ table[i].parceiro_id = parceiro_id)
        THEN [table[i] EXCEPT
                !.tipo_operacao = IF set.tipo_operacao # Null THEN set.tipo_operacao ELSE @,
                !.status_operacao = IF set.status_operacao # Null THEN stored ELSE @,
                !.enviado_em = IF set.enviado_em # 0 THEN set.enviado_em ELSE @]
        ELSE table[i]]

OperStatement(kind, id, parceiro_id, row, set) ==
    [kind |-> kind, id |-> id, parceiro_id |-> parceiro_id, row |-> row, set |-> set]

\* ---- POST /operacoes/criar ----
CriarOperacaoBodies ==
    { [NullBody EXCEPT !.parceiro_id = i[1], !.tipo_operacao = i[2], !.status_operacao = i[3]] :
        i \in { <<0, "home_equity", Null>>, <<1, Null, Null>>, <<1, "home_equity", Null>>,
                <<1, "HOME_EQUITY", "recebida">>, <<1, "outro", "foo">>,
                <<2, "aquisicao_imovel", "em_analise">>, <<9, "home_equity", Null>> } }

\* the validation of parceiro_id and tipo_operacao
CriarOperacaoStart(s) ==
    /\ CanStart(s)
    /\ \E body \in CriarOperacaoBodies :
          IF body.parceiro_id = 0
          THEN Begin(s, "criarOperacao", body, "done", Resp(400, "Campo obrigatorio: parceiro_id"))
          ELSE IF body.tipo_operacao = Null
          THEN Begin(s, "criarOperacao", body, "done", Resp(400, "Campo obrigatorio: tipo_operacao"))
          ELSE Begin(s, "criarOperacao", body, "o_check", NoResp)
    /\ UNCHANGED <<pre_cadastros, parceiros, nextPreId, nextParceiroId, abandoned>>
    /\ UNCHANGED <<execVars, operVars, normVars>>

\* a check that finds every partner
ParceiroCheckAlways(table, parceiro_id) == TRUE

\* parceiroCheck.length > 0
ParceiroCheck(table, parceiro_id) == parceiro_id \in DOMAIN table

\* SELECT id FROM parceiros WHERE id = ? LIMIT 1
CriarOperacaoCheck(s) ==
    /\ reqs[s].op = "criarOperacao"
    /\ reqs[s].pc = "o_check"
    /\ \/ \E how \in ReadFailures : Done(s, Resp500("Erro interno", how))
       \/ IF ~ParceiroCheck(parceiros, reqs[s].body.parceiro_id)
          THEN Done(s, Resp(400, "Usuario nao encontrado"))
          ELSE reqs' = [reqs EXCEPT ![s].pc = "o_insert"]
    /\ UNCHANGED <<pre_cadastros, parceiros, nextPreId, nextParceiroId, started, abandoned>>
    /\ UNCHANGED <<execVars, operVars, normVars>>

\* allowedTipoOperacao.has(lower) ? lower : 'home_equity'
TipoOperacaoFinal(tipo_operacao) ==
    IF ToLowerCase(tipo_operacao) \in {"home_equity", "aquisicao_imovel"}
    THEN ToLowerCase(tipo_operacao)
    ELSE "home_equity"

\* status_operacao || 'rascunho'
StatusInicial(status_operacao) ==
    IF status_operacao = Null THEN "rascunho" ELSE status_operacao

\* an INSERT that never stamps enviado_em
CriarOperacaoRowNoStamp(body, serial) ==
    [parceiro_id |-> body.parceiro_id,
     tipo_operacao |-> TipoOperacaoFinal(body.tipo_operacao),
     status_operacao |-> StatusInicial(body.status_operacao),
     enviado_em |-> 0]

\* the values of the INSERT; enviado_em is new Date() of this request
CriarOperacaoRow(body, serial) ==
    [parceiro_id |-> body.parceiro_id,
     tipo_operacao |-> TipoOperacaoFinal(body.tipo_operacao),
     status_operacao |-> StatusInicial(body.status_operacao),
     enviado_em |-> IF body.status_operacao = "recebida" THEN serial ELSE 0]

\* INSERT INTO operacoes (...) and the 201
CriarOperacaoInsert(s) ==
    /\ reqs[s].op = "criarOperacao"
    /\ reqs[s].pc = "o_insert"
    /\ LET row == CriarOperacaoRow(reqs[s].body, reqs[s].serial)
       IN  \/ \E stored \in ColumnStatus(row.status_operacao) :
                /\ operacoes' = Insert(operacoes, nextOperacaoId,
                                       [row EXCEPT !.status_operacao = stored])
                /\ nextOperacaoId' = nextOperacaoId + 1
                /\ reqs' = [reqs EXCEPT ![s].pc = "done", ![s].insertId = nextOperacaoId,
                                        ![s].writes = @ \cup {"insert_operacao"},
                                        ![s].resp = [Resp(201, "Operacao criada com sucesso")
                                                       EXCEPT !.id = nextOperacaoId,
                                                              !.operacaoStatus = row.status_operacao]]
                /\ UNCHANGED abandonedOper
           \/ /\ Done(s, Resp500("Erro interno", "rejected"))
              /\ UNCHANGED operVars
           \/ /\ Done(s, Resp500("Erro interno", "lost"))
              /\ abandonedOper' = abandonedOper \cup {OperStatement("insert", 0, 0, row, NoSet)}
              /\ UNCHANGED <<operacoes, nextOperacaoId>>
    /\ UNCHANGED <<pre_cadastros, parceiros, nextPreId, nextParceiroId, started, abandoned>>
    /\ UNCHANGED <<execVars, normVars>>

\* ---- PUT /operacoes/atualizar ----
AtualizarOperacaoBodies ==
    { [NullBody EXCEPT !.operacao_id = i[1], !.parceiro_id = i[2], !.status_operacao = i[3],
                       !.tipo_operacao = i[4]] :
        i \in { <<0, 1, "recebida", Null>>, <<1, 1, Null, Null>>, <<1, 1, "recebida", Null>>,
                <<1, 1, "foo", Null>>, <<1, 2, "aprovada", Null>>,
                <<1, 1, Null, "aquisicao_imovel">> } }

AtualizarOperacaoStart(s) ==
    /\ CanStart(s)
    /\ \E body \in AtualizarOperacaoBodies :
          IF body.operacao_id = 0 \/ body.parceiro_id = 0
          THEN Begin(s, "atualizarOperacao", body, "done",
                     Resp(400, "Campos obrigatorios: operacao_id, parceiro_id"))
          ELSE Begin(s, "atualizarOperacao", body, "u_check", NoResp)
    /\ UNCHANGED <<pre_cadastros, parceiros, nextPreId, nextParceiroId, abandoned>>
    /\ UNCHANGED <<execVars, operVars, normVars>>

\* the SET list built from the fields present in the request
AtualizarOperacaoSet(body, serial) ==
    [tipo_operacao |-> body.tipo_operacao,
     status_operacao |-> body.status_operacao,
     enviado_em |-> IF body.status_operacao = "recebida" THEN serial ELSE 0]

\* SELECT id, status_operacao FROM operacoes WHERE id = ? AND parceiro_id = ?,
\* and the building of the SET list
AtualizarOperacaoCheck(s) ==
    /\ reqs[s].op = "atualizarOperacao"
    /\ reqs[s].pc = "u_check"
    /\ LET body == reqs[s].body
       IN  \/ \E how \in ReadFailures : Done(s, Resp500("Erro interno", how))
           \/ IF ~(/\ body.operacao_id \in DOMAIN operacoes
                   /\ operacoes[body.operacao_id].parceiro_id = body.parceiro_id)
              THEN Done(s, Resp(404, "Operacao nao encontrada"))
              ELSE IF AtualizarOperacaoSet(body, reqs[s].serial) = NoSet
              THEN Done(s, Resp(400, "Nenhum campo valido para atualizar"))
              ELSE reqs' = [reqs EXCEPT ![s].pc = "u_update"]
    /\ UNCHANGED <<pre_cadastros, parceiros, nextPreId, nextParceiroId, started, abandoned>>
    /\ UNCHANGED <<execVars, operVars, normVars>>

\* UPDATE operacoes SET ... WHERE id = ? AND parceiro_id = ?
AtualizarOperacaoUpdate(s) ==
    /\ reqs[s].op = "atualizarOperacao"
    /\ reqs[s].pc = "u_update"
    /\ LET body == reqs[s].body
           set == AtualizarOperacaoSet(body, reqs[s].serial)
       IN  \/ \E stored \in ColumnStatus(set.status_operacao) :
                /\ operacoes' = UpdateOperacao(operacoes, body.operacao_id, body.parceiro_id,
                                               set, stored)
                /\ reqs' = [reqs EXCEPT ![s].pc = "done",
                                        ![s].writes = @ \cup {"update_operacao"},
                                        ![s].resp = Resp(200, "Operacao atualizada com sucesso")]
                /\ UNCHANGED abandonedOper
           \/ /\ Done(s, Resp500("Erro interno", "rejected"))
              /\ UNCHANGED <<operacoes, abandonedOper>>
           \/ /\ Done(s, Resp500("Erro interno", "lost"))
              /\ abandonedOper' = abandonedOper \cup
                    {OperStatement("update", body.operacao_id, body.parceiro_id, NullOperacao, set)}
              /\ UNCHANGED operacoes
    /\ UNCHANGED nextOperacaoId
    /\ UNCHANGED <<pre_cadastros, parceiros, nextPreId, nextParceiroId, started, abandoned>>
    /\ UNCHANGED <<execVars, normVars>>

\* ---- PUT /admin/operacoes/status ----
AdminUpdateOperacaoStatusBodies ==
    { [NullBody EXCEPT !.adminId = i[1], !.operacaoId = i[2], !.status_operacao = i[3]] :
        i \in { <<1, 1, "aprovada">>, <<1, 1, "RECEBIDA">>, <<1, 1, "foo">>, <<1, 1, Null>>,
                <<9, 1, "aprovada">>, <<1, 9, "cancelada">> } }

\* allowed.has(String(status_operacao).toLowerCase())
StatusAllowed(status_operacao) == ToLowerCase(status_operacao) \in StatusOperacao

AdminUpdateOperacaoStatusStart(s) ==
    /\ CanStart(s)
    /\ \E body \in AdminUpdateOperacaoStatusBodies :
          IF body.adminId = 0 \/ body.operacaoId = 0 \/ body.status_operacao = Null
          THEN Begin(s, "adminUpdateOperacaoStatus", body, "done",
                     Resp(400, "Campos obrigatorios: adminId, operacaoId, status_operacao"))
          ELSE IF ~StatusAllowed(body.status_operacao)
          THEN Begin(s, "adminUpdateOperacaoStatus", body, "done", Resp(400, "Status invalido"))
          ELSE Begin(s, "adminUpdateOperacaoStatus", body, "a_admin", NoResp)
    /\ UNCHANGED <<pre_cadastros, parceiros, nextPreId, nextParceiroId, abandoned>>
    /\ UNCHANGED <<execVars, operVars, normVars>>

\* SELECT id FROM admin WHERE id = ? LIMIT 1
AdminUpdateOperacaoStatusAdmin(s) ==
    /\ reqs[s].op = "adminUpdateOperacaoStatus"
    /\ reqs[s].pc = "a_admin"
    /\ \/ \E how \in ReadFailures : Done(s, Resp500("Erro interno", how))
       \/ IF reqs[s].body.adminId \notin Admins
          THEN Done(s, Resp(403, "Acesso negado"))
          ELSE reqs' = [reqs EXCEPT ![s].pc = "a_op"]
    /\ UNCHANGED <<pre_cadastros, parceiros, nextPreId, nextParceiroId, started, abandoned>>
    /\ UNCHANGED <<execVars, operVars, normVars>>

\* SELECT id FROM operacoes WHERE id = ? LIMIT 1
AdminUpdateOperacaoStatusCheck(s) ==
    /\ reqs[s].op = "adminUpdateOperacaoStatus"
    /\ reqs[s].pc = "a_op"
    /\ \/ \E how \in ReadFailures : Done(s, Resp500("Erro interno", how))
       \/ IF reqs[s].body.operacaoId \notin DOMAIN operacoes
          THEN Done(s, Resp(404, "Operacao nao encontrada"))
          ELSE reqs' = [reqs EXCEPT ![s].pc = "a_update"]
    /\ UNCHANGED <<pre_cadastros, parceiros, nextPreId, nextParceiroId, started, abandoned>>
    /\ UNCHANGED <<execVars, operVars, normVars>>

\* updates = ['status_operacao = ?'], plus enviado_em for 'recebida'
AdminUpdateOperacaoStatusSet(body, serial) ==
    [tipo_operacao |-> Null,
     status_operacao |-> ToLowerCase(body.status_operacao),
     enviado_em |-> IF ToLowerCase(body.status_operacao) = "recebida" THEN serial ELSE 0]

\* UPDATE operacoes SET ... WHERE id = ?
AdminUpdateOperacaoStatusUpdate(s) ==
    /\ reqs[s].op = "adminUpdateOperacaoStatus"
    /\ reqs[s].pc = "a_update"
    /\ LET body == reqs[s].body
           set == AdminUpdateOperacaoStatusSet(body, reqs[s].serial)
       IN  \/ \E stored \in ColumnStatus(set.status_operacao) :
                /\ operacoes' = UpdateOperacao(operacoes, body.operacaoId, 0, set, stored)
                /\ reqs' = [reqs EXCEPT ![s].pc = "done",
                                        ![s].writes = @ \cup {"update_operacao"},
                                        ![s].resp = Resp(200, "Status atualizado com sucesso")]
                /\ UNCHANGED abandonedOper
           \/ /\ Done(s, Resp500("Erro interno", "rejected"))
              /\ UNCHANGED <<operacoes, abandonedOper>>
           \/ /\ Done(s, Resp500("Erro interno", "lost"))
              /\ abandonedOper' = abandonedOper \cup
                    {OperStatement("update", body.operacaoId, 0, NullOperacao, set)}
              /\ UNCHANGED operacoes
    /\ UNCHANGED nextOperacaoId
    /\ UNCHANGED <<pre_cadastros, parceiros, nextPreId, nextParceiroId, started, abandoned>>
    /\ UNCHANGED <<execVars, normVars>>

\* the store executes a statement on operacoes whose wait was given up
StoreExecutesAbandonedOper ==
    /\ \E st \in abandonedOper :
         /\ abandonedOper' = abandonedOper \ {st}
         /\ IF st.kind = "insert"
            THEN \E stored \in ColumnStatus(st.row.status_operacao) :
                    /\ operacoes' = Insert(operacoes, nextOperacaoId,
                                           [st.row EXCEPT !.status_operacao = stored])
                    /\ nextOperacaoId' = nextOperacaoId + 1
            ELSE \E stored \in ColumnStatus(st.set.status_operacao) :
                    /\ operacoes' = UpdateOperacao(operacoes, st.id, st.parceiro_id, st.set, stored)
                    /\ UNCHANGED nextOperacaoId
    /\ UNCHANGED <<dbVars, execVars, normVars>>

\* the operations when the run starts: what an earlier criarOperacao of the
\* first partner left
InitialOperacoes ==
    { EmptyTable } \cup
    { Insert(EmptyTable, 1, [NullOperacao EXCEPT !.parceiro_id = 1, !.tipo_operacao = "home_equity",
                                                 !.status_operacao = st]) :
        st \in {"rascunho"} }

InitOper ==
    /\ ExecIdle
    /\ norm = NoNorm
    /\ pre_cadastros = EmptyTable
    /\ parceiros \in {t \in InitialParceiros : \A i \in DOMAIN t : t[i].cpf = "c1"}
    /\ nextPreId = 1
    /\ nextParceiroId = Cardinality(DOMAIN parceiros) + 1
    /\ reqs = [s \in Slots |-> IdleReq]
    /\ started = 0
    /\ abandoned = {}
    /\ operacoes \in IF parceiros = EmptyTable THEN {EmptyTable} ELSE InitialOperacoes
    /\ nextOperacaoId = Cardinality(DOMAIN operacoes) + 1
    /\ abandonedOper = {}

NextOper ==
    \/ \E s \in Slots : CadastroStart(s)
    \/ \E s \in Slots : CadastroCheck(s)
    \/ \E s \in Slots : CadastroInsert(s)
    \/ \E s \in Slots : CriarOperacaoStart(s)
    \/ \E s \in Slots : CriarOperacaoCheck(s)
    \/ \E s \in Slots : CriarOperacaoInsert(s)
    \/ \E s \in Slots : AtualizarOperacaoStart(s)
    \/ \E s \in Slots : AtualizarOperacaoCheck(s)
    \/ \E s \in Slots : AtualizarOperacaoUpdate(s)
    \/ \E s \in Slots : AdminUpdateOperacaoStatusStart(s)
    \/ \E s \in Slots : AdminUpdateOperacaoStatusAdmin(s)
    \/ \E s \in Slots : AdminUpdateOperacaoStatusCheck(s)
    \/ \E s \in Slots : AdminUpdateOperacaoStatusUpdate(s)
    \/ StoreExecutesAbandoned
    \/ StoreExecutesAbandonedOper

SpecOper == InitOper /\ [][NextOper]_vars

(***************************************************************************)
(* GET /admin/pre-cadastros and PUT /admin/pre-cadastros/status            *)
(***************************************************************************)
\* UPDATE pre_cadastros SET status_elegibilidade = ? WHERE id = ?
UpdateStatusElegibilidade(table, id, status) ==
    [i \in DOMAIN table |->
        IF i = id THEN [table[i] EXCEPT !.status_elegibilidade = status] ELSE table[i]]

\* a back-fill that rejects only when both answers are 'NAO'
BackfillStatusBoth(pre) ==
    IF pre.resp_tipo_cnpj = "NAO" /\ pre.resp_perfil_clientes = "NAO"
    THEN "reprovado"
    ELSE "pre-aprovado"

\* novoStatus of the back-fill loop
BackfillStatus(pre) ==
    IF pre.resp_tipo_cnpj = "NAO" \/ pre.resp_perfil_clientes = "NAO"
    THEN "reprovado"
    ELSE "pre-aprovado"

\* event.queryStringParameters
AdminListPreCadastrosBodies == { [NullBody EXCEPT !.adminId = a] : a \in {0, 1, 9} }

AdminListPreCadastrosStart(s) ==
    /\ CanStart(s)
    /\ \E body \in AdminListPreCadastrosBodies :
          IF body.adminId = 0
          THEN Begin(s, "adminListPreCadastros", body, "done", Resp(401, "Admin ID e obrigatorio"))
          ELSE Begin(s, "adminListPreCadastros", body, "l_admin", NoResp)
    /\ UNCHANGED <<pre_cadastros, parceiros, nextPreId, nextParceiroId, abandoned>>
    /\ UNCHANGED <<execVars, operVars, normVars>>

\* SELECT id FROM admin WHERE id = ? LIMIT 1
AdminListPreCadastrosAdmin(s) ==
    /\ reqs[s].op = "adminListPreCadastros"
    /\ reqs[s].pc = "l_admin"
    /\ \/ \E how \in ReadFailures : Done(s, Resp500("Erro interno", how))
       \/ IF reqs[s].body.adminId \notin Admins
          THEN Done(s, Resp(403, "Admin nao autorizado"))
          ELSE reqs' = [reqs EXCEPT ![s].pc = "l_select"]
    /\ UNCHANGED <<pre_cadastros, parceiros, nextPreId, nextParceiroId, started, abandoned>>
    /\ UNCHANGED <<execVars, operVars, normVars>>

\* SELECT ... FROM pre_cadastros ORDER BY data_cadastro DESC
AdminListPreCadastrosSelect(s) ==
    /\ reqs[s].op = "adminListPreCadastros"
    /\ reqs[s].pc = "l_select"
    /\ \/ \E how \in ReadFailures : Done(s, Resp500("Erro interno", how))
       \/ reqs' = [reqs EXCEPT ![s].pc = "l_loop", ![s].rows = pre_cadastros]
    /\ UNCHANGED <<pre_cadastros, parceiros, nextPreId, nextParceiroId, started, abandoned>>
    /\ UNCHANGED <<execVars, operVars, normVars>>

\* the rows of the result the loop has still to fill
WithoutStatus(rows) == {i \in DOMAIN rows : rows[i].status_elegibilidade = Null}

\* the row the loop visits next: the newest one
NextWithoutStatus(rows) ==
    CHOOSE i \in WithoutStatus(rows) : \A j \in WithoutStatus(rows) : j <= i

\* one turn of the loop on a row without status: the UPDATE and the
\* assignment to the row of the result
AdminListPreCadastrosBackfill(s) ==
    /\ reqs[s].op = "adminListPreCadastros"
    /\ reqs[s].pc = "l_loop"
    /\ WithoutStatus(reqs[s].rows) # {}
    /\ LET id == NextWithoutStatus(reqs[s].rows)
           novoStatus == BackfillStatus(reqs[s].rows[id])
       IN  \/ /\ pre_cadastros' = UpdateStatusElegibilidade(pre_cadastros, id, novoStatus)
              /\ reqs' = [reqs EXCEPT ![s].writes = @ \cup {"update_pre"},
                                      ![s].rows = UpdateStatusElegibilidade(@, id, novoStatus)]
              /\ UNCHANGED abandoned
           \/ /\ Done(s, Resp500("Erro interno", "rejected"))
              /\ UNCHANGED <<pre_cadastros, abandoned>>
           \/ /\ reqs' = [reqs EXCEPT ![s].pc = "done", ![s].writes = @ \cup {"update_pre"},
                                      ![s].resp = Resp500("Erro interno", "lost")]
              /\ abandoned' = abandoned \cup
                    {Statement("update_pre", id,
                               [NullPre EXCEPT !.status_elegibilidade = novoStatus], NullParceiro)}
              /\ UNCHANGED pre_cadastros
    /\ UNCHANGED <<parceiros, nextPreId, nextParceiroId, started>>
    /\ UNCHANGED <<execVars, operVars, normVars>>

\* SELECT COUNT(*) as total FROM pre_cadastros, and the 200
AdminListPreCadastrosCount(s) ==
    /\ reqs[s].op = "adminListPreCadastros"
    /\ reqs[s].pc = "l_loop"
    /\ WithoutStatus(reqs[s].rows) = {}
    /\ \/ \E how \in ReadFailures : Done(s, Resp500("Erro interno", how))
       \/ Done(s, [Resp(200, "") EXCEPT !.preCadastros = reqs[s].rows,
                                        !.total = Cardinality(DOMAIN pre_cadastros)])
    /\ UNCHANGED <<pre_cadastros, parceiros, nextPreId, nextParceiroId, started, abandoned>>
    /\ UNCHANGED <<execVars, operVars, normVars>>

\* ---- PUT /admin/pre-cadastros/status ----
AdminUpdatePreCadastroStatusBodies ==
    { [NullBody EXCEPT !.adminId = i[1], !.preCadastroId = i[2], !.status = i[3]] :
        i \in { <<1, 1, "reprovado">>, <<1, 1, "aprovado">>, <<1, 1, "pre-aprovado">>,
                <<1, 1, Null>>, <<9, 1, "reprovado">>, <<1, 9, "reprovado">> } }

\* a list that lets the approval through
StatusPermitidosComAprovado == {"reprovado", "aprovado"}

\* const statusPermitidos = ['reprovado']
StatusPermitidos == {"reprovado"}

AdminUpdatePreCadastroStatusStart(s) ==
    /\ CanStart(s)
    /\ \E body \in AdminUpdatePreCadastroStatusBodies :
          IF body.adminId = 0 \/ body.preCadastroId = 0 \/ body.status = Null
          THEN Begin(s, "adminUpdatePreCadastroStatus", body, "done",
                     Resp(400, "Admin ID, Pre-cadastro ID e status sao obrigatorios"))
          ELSE IF body.status \notin StatusPermitidos
          THEN Begin(s, "adminUpdatePreCadastroStatus", body, "done", Resp(400, "Status invalido"))
          ELSE Begin(s, "adminUpdatePreCadastroStatus", body, "s_admin", NoResp)
    /\ UNCHANGED <<pre_cadastros, parceiros, nextPreId, nextParceiroId, abandoned>>
    /\ UNCHANGED <<execVars, operVars, normVars>>

\* SELECT id FROM admin WHERE id = ? LIMIT 1
AdminUpdatePreCadastroStatusAdmin(s) ==
    /\ reqs[s].op = "adminUpdatePreCadastroStatus"
    /\ reqs[s].pc = "s_admin"
    /\ \/ \E how \in ReadFailures : Done(s, Resp500("Erro interno", how))
       \/ IF reqs[s].body.adminId \notin Admins
          THEN Done(s, Resp(403, "Admin nao autorizado"))
          ELSE reqs' = [reqs EXCEPT ![s].pc = "s_check"]
    /\ UNCHANGED <<pre_cadastros, parceiros, nextPreId, nextParceiroId, started, abandoned>>
    /\ UNCHANGED <<execVars, operVars, normVars>>

\* SELECT id FROM pre_cadastros WHERE id = ? LIMIT 1
AdminUpdatePreCadastroStatusCheck(s) ==
    /\ reqs[s].op = "adminUpdatePreCadastroStatus"
    /\ reqs[s].pc = "s_check"
    /\ \/ \E how \in ReadFailures : Done(s, Resp500("Erro interno", how))
       \/ IF reqs[s].body.preCadastroId \notin DOMAIN pre_cadastros
          THEN Done(s, Resp(404, "Pre-cadastro nao encontrado"))
          ELSE reqs' = [reqs EXCEPT ![s].pc = "s_update"]
    /\ UNCHANGED <<pre_cadastros, parceiros, nextPreId, nextParceiroId, started, abandoned>>
    /\ UNCHANGED <<execVars, operVars, normVars>>

\* UPDATE pre_cadastros SET status_elegibilidade = ? WHERE id = ?, and the 200
AdminUpdatePreCadastroStatusUpdate(s) ==
    /\ reqs[s].op = "adminUpdatePreCadastroStatus"
    /\ reqs[s].pc = "s_update"
    /\ LET body == reqs[s].body
       IN  \/ /\ pre_cadastros' = UpdateStatusElegibilidade(pre_cadastros, body.preCadastroId,
                                                            body.status)
              /\ reqs' = [reqs EXCEPT ![s].pc = "done", ![s].writes = @ \cup {"update_pre"},
                                      ![s].resp = Resp(200, "Status atualizado com sucesso")]
              /\ UNCHANGED abandoned
           \/ /\ Done(s, Resp500("Erro interno", "rejected"))
              /\ UNCHANGED <<pre_cadastros, abandoned>>
           \/ /\ reqs' = [reqs EXCEPT ![s].pc = "done", ![s].writes = @ \cup {"update_pre"},
                                      ![s].resp = Resp500("Erro interno", "lost")]
              /\ abandoned' = abandoned \cup
                    {Statement("update_pre", body.preCadastroId,
                               [NullPre EXCEPT !.status_elegibilidade = body.status], NullParceiro)}
              /\ UNCHANGED pre_cadastros
    /\ UNCHANGED <<parceiros, nextPreId, nextParceiroId, started>>
    /\ UNCHANGED <<execVars, operVars, normVars>>

\* a row from before the column status_elegibilidade existed
LegacyPreCadastro(resp_tipo_cnpj, resp_perfil_clientes) ==
    [NullPre EXCEPT !.nome_completo = "n", !.cpf = "c2", !.email = "e2",
                    !.resp_tipo_cnpj = resp_tipo_cnpj,
                    !.resp_perfil_clientes = resp_perfil_clientes]

\* the pre-registrations when the run starts: one row without status, alone
\* or after a row that preCadastro created
InitialPreCadastrosLegacy ==
    { Insert(EmptyTable, 1, LegacyPreCadastro(a[1], a[2])) :
        a \in { <<"SIM", "SIM">>, <<"NAO", "SIM">>, <<"SIM", "NAO">>, <<"NAO", "NAO">> } }
        \cup
    { Insert(t, 2, LegacyPreCadastro("SIM", "NAO")) : t \in InitialPreCadastros \ {EmptyTable} }

InitPre ==
    /\ ExecIdle
    /\ norm = NoNorm
    /\ pre_cadastros \in InitialPreCadastrosLegacy
    /\ parceiros \in InitialParceiros
    /\ nextPreId = Cardinality(DOMAIN pre_cadastros) + 1
    /\ nextParceiroId = Cardinality(DOMAIN parceiros) + 1
    /\ reqs = [s \in Slots |-> IdleReq]
    /\ started = 0
    /\ abandoned = {}
    /\ operacoes = EmptyTable
    /\ nextOperacaoId = 1
    /\ abandonedOper = {}

\* one legacy row, alone or after a row of preCadastro; no partner yet, or the
\* partner that has the legacy row's cpf
InitStatus ==
    /\ ExecIdle
    /\ norm = NoNorm
    /\ pre_cadastros \in {t \in InitialPreCadastrosLegacy :
                              \A i \in DOMAIN t : t[i].resp_tipo_cnpj = "SIM"}
    /\ parceiros \in {t \in InitialParceiros : \A i \in DOMAIN t : t[i].cpf = "c2"}
    /\ nextPreId = Cardinality(DOMAIN pre_cadastros) + 1
    /\ nextParceiroId = Cardinality(DOMAIN parceiros) + 1
    /\ reqs = [s \in Slots |-> IdleReq]
    /\ started = 0
    /\ abandoned = {}
    /\ operacoes = EmptyTable
    /\ nextOperacaoId = 1
    /\ abandonedOper = {}

NextPre ==
    \/ \E s \in Slots : PreCadastroStart(s)
    \/ \E s \in Slots : PreCadastroCheck(s)
    \/ \E s \in Slots : PreCadastroInsert(s)
    \/ \E s \in Slots : AdminListPreCadastrosStart(s)
    \/ \E s \in Slots : AdminListPreCadastrosAdmin(s)
    \/ \E s \in Slots : AdminListPreCadastrosSelect(s)
    \/ \E s \in Slots : AdminListPreCadastrosBackfill(s)
    \/ \E s \in Slots : AdminListPreCadastrosCount(s)
    \/ StoreExecutesAbandoned

\* preCadastro and the listing with its back-fill
SpecPre == InitPre /\ [][NextPre]_vars

NextStatus ==
    \/ \E s \in Slots : AdminListPreCadastrosStart(s)
    \/ \E s \in Slots : AdminListPreCadastrosAdmin(s)
    \/ \E s \in Slots : AdminListPreCadastrosSelect(s)
    \/ \E s \in Slots : AdminListPreCadastrosBackfill(s)
    \/ \E s \in Slots : AdminListPreCadastrosCount(s)
    \/ \E s \in Slots : AdminUpdatePreCadastroStatusStart(s)
    \/ \E s \in Slots : AdminUpdatePreCadastroStatusAdmin(s)
    \/ \E s \in Slots : AdminUpdatePreCadastroStatusCheck(s)
    \/ \E s \in Slots : AdminUpdatePreCadastroStatusUpdate(s)
    \/ \E s \in Slots : TransformarStart(s)
    \/ \E s \in Slots : TransformarAdmin(s)
    \/ \E s \in Slots : TransformarLoad(s)
    \/ \E s \in Slots : TransformarCheck(s)
    \/ \E s \in Slots : TransformarInsert(s)
    \/ \E s \in Slots : TransformarDelete(s)
    \/ StoreExecutesAbandoned

\* every writer of status_elegibilidade but preCadastro: the back-fill, the
\* status update and the promotion
SpecStatus == InitStatus /\ [][NextStatus]_vars

(***************************************************************************)
(* The handlers that read parceiros                                        *)
(***************************************************************************)
\* SUBSTRING(MD5(CONCAT(id, nome)), 1, 8)
Md5Prefix(id, nome) == "md5:" \o ToString(id) \o ":" \o nome

\* id, nome, cpf, email, COALESCE(senha_temp, SUBSTRING(MD5(...), 1, 8)) as senha
AdminView(id, row) ==
    [id |-> id, nome |-> row.nome, cpf |-> row.cpf, email |-> row.email,
     senha |-> IF row.senha_temp # Null THEN row.senha_temp ELSE Md5Prefix(id, row.nome)]

\* id, nome, email, cpf of login (after delete user.senha) and of getUserData
UserView(id, row) ==
    [id |-> id, nome |-> row.nome, cpf |-> row.cpf, email |-> row.email, senha |-> Null]

\* ---- GET /admin/parceiros ----
AdminListParceirosBodies == { [NullBody EXCEPT !.adminId = a] : a \in {0, 1, 9} }

AdminListParceirosStart(s) ==
    /\ CanStart(s)
    /\ \E body \in AdminListParceirosBodies :
          IF body.adminId = 0
          THEN Begin(s, "adminListParceiros", body, "done", Resp(400, "ID do admin e obrigatorio"))
          ELSE Begin(s, "adminListParceiros", body, "lp_admin", NoResp)
    /\ UNCHANGED <<pre_cadastros, parceiros, nextPreId, nextParceiroId, abandoned>>
    /\ UNCHANGED <<execVars, operVars, normVars>>

\* SELECT id FROM admin WHERE id = ? LIMIT 1
AdminListParceirosAdmin(s) ==
    /\ reqs[s].op = "adminListParceiros"
    /\ reqs[s].pc = "lp_admin"
    /\ \/ \E how \in ReadFailures : Done(s, Resp500("Erro interno", how))
       \/ IF reqs[s].body.adminId \notin Admins
          THEN Done(s, Resp(403, "Acesso negado"))
          ELSE reqs' = [reqs EXCEPT ![s].pc = "lp_select"]
    /\ UNCHANGED <<pre_cadastros, parceiros, nextPreId, nextParceiroId, started, abandoned>>
    /\ UNCHANGED <<execVars, operVars, normVars>>

\* SELECT id, nome, cpf, email, COALESCE(...) as senha, ... FROM parceiros
AdminListParceirosSelect(s) ==
    /\ reqs[s].op = "adminListParceiros"
    /\ reqs[s].pc = "lp_select"
    /\ \/ \E how \in ReadFailures : Done(s, Resp500("Erro interno", how))
       \/ reqs' = [reqs EXCEPT ![s].pc = "lp_count",
                               ![s].rows = [i \in DOMAIN parceiros |-> AdminView(i, parceiros[i])]]
    /\ UNCHANGED <<pre_cadastros, parceiros, nextPreId, nextParceiroId, started, abandoned>>
    /\ UNCHANGED <<execVars, operVars, normVars>>

\* SELECT COUNT(*) as total FROM parceiros, and the 200
AdminListParceirosCount(s) ==
    /\ reqs[s].op = "adminListParceiros"
    /\ reqs[s].pc = "lp_count"
    /\ \/ \E how \in ReadFailures : Done(s, Resp500("Erro interno", how))
       \/ Done(s, [Resp(200, "") EXCEPT !.parceiros = reqs[s].rows,
                                        !.total = Cardinality(DOMAIN parceiros)])
    /\ UNCHANGED <<pre_cadastros, parceiros, nextPreId, nextParceiroId, started, abandoned>>
    /\ UNCHANGED <<execVars, operVars, normVars>>

\* ---- GET /admin/parceiros/detalhe ----
AdminGetParceiroBodies ==
    { [NullBody EXCEPT !.adminId = i[1], !.parceiroId = i[2]] :
        i \in { <<1, 1>>, <<1, 2>>, <<1, 0>>, <<9, 1>> } }

AdminGetParceiroStart(s) ==
    /\ CanStart(s)
    /\ \E body \in AdminGetParceiroBodies :
          IF body.adminId = 0 \/ body.parceiroId = 0
          THEN Begin(s, "adminGetParceiro", body, "done",
                     Resp(400, "ID do admin e do parceiro sao obrigatorios"))
          ELSE Begin(s, "adminGetParceiro", body, "gp_admin", NoResp)
    /\ UNCHANGED <<pre_cadastros, parceiros, nextPreId, nextParceiroId, abandoned>>
    /\ UNCHANGED <<execVars, operVars, normVars>>

\* SELECT id FROM admin WHERE id = ? LIMIT 1
AdminGetParceiroAdmin(s) ==
    /\ reqs[s].op = "adminGetParceiro"
    /\ reqs[s].pc = "gp_admin"
    /\ \/ \E how \in ReadFailures : Done(s, Resp500("Erro interno", how))
       \/ IF reqs[s].body.adminId \notin Admins
          THEN Done(s, Resp(403, "Acesso negado"))
          ELSE reqs' = [reqs EXCEPT ![s].pc = "gp_select"]
    /\ UNCHANGED <<pre_cadastros, parceiros, nextPreId, nextParceiroId, started, abandoned>>
    /\ UNCHANGED <<execVars, operVars, normVars>>

\* SELECT id, nome, cpf, email, COALESCE(...) as senha, ... WHERE id = ? LIMIT 1
AdminGetParceiroSelect(s) ==
    /\ reqs[s].op = "adminGetParceiro"
    /\ reqs[s].pc = "gp_select"
    /\ LET id == reqs[s].body.parceiroId
       IN  \/ \E how \in ReadFailures : Done(s, Resp500("Erro interno", how))
           \/ IF id \notin DOMAIN parceiros
              THEN Done(s, Resp(404, "Parceiro nao encontrado"))
              ELSE Done(s, [Resp(200, "") EXCEPT !.parceiro = AdminView(id, parceiros[id])])
    /\ UNCHANGED <<pre_cadastros, parceiros, nextPreId, nextParceiroId, started, abandoned>>
    /\ UNCHANGED <<execVars, operVars, normVars>>

\* ---- POST /parceiros/login ----
LoginBodies ==
    { [NullBody EXCEPT !.cpf = i[1], !.email = i[2], !.senha = i[3]] :
        i \in { <<"c1", Null, "s">>, <<"c1", Null, "t1">>, <<Null, "e2", "t2">>,
                <<Null, Null, "s">>, <<"c2", Null, Null>> } }

LoginStart(s) ==
    /\ CanStart(s)
    /\ \E body \in LoginBodies :
          IF (body.cpf = Null /\ body.email = Null) \/ body.senha = Null
          THEN Begin(s, "login", body, "done", Resp(400, "Informe CPF ou e-mail e senha"))
          ELSE Begin(s, "login", body, "lg_select", NoResp)
    /\ UNCHANGED <<pre_cadastros, parceiros, nextPreId, nextParceiroId, abandoned>>
    /\ UNCHANGED <<execVars, operVars, normVars>>

\* SELECT ... FROM parceiros WHERE cpf = ? OR email = ? LIMIT 1, bcrypt.compare,
\* delete user.senha, and the 200
LoginSelect(s) ==
    /\ reqs[s].op = "login"
    /\ reqs[s].pc = "lg_select"
    /\ LET body == reqs[s].body
           found == {i \in DOMAIN parceiros :
                        \/ body.cpf # Null /\ parceiros[i].cpf = body.cpf
                        \/ body.email # Null /\ parceiros[i].email = body.email}
       IN  \/ \E how \in ReadFailures : Done(s, Resp500("Erro interno", how))
           \/ /\ found = {}
              /\ Done(s, Resp(401, "Credenciais invalidas"))
           \/ \E i \in found :
                 IF Verify(body.senha, parceiros[i].senha)
                 THEN Done(s, [Resp(200, "Login efetuado com sucesso")
                                 EXCEPT !.user = UserView(i, parceiros[i])])
                 ELSE Done(s, Resp(401, "Credenciais invalidas"))
    /\ UNCHANGED <<pre_cadastros, parceiros, nextPreId, nextParceiroId, started, abandoned>>
    /\ UNCHANGED <<execVars, operVars, normVars>>

\* ---- GET /parceiros/me ----
GetUserDataBodies == { [NullBody EXCEPT !.userId = u] : u \in {0, 1, 2} }

GetUserDataStart(s) ==
    /\ CanStart(s)
    /\ \E body \in GetUserDataBodies :
          IF body.userId = 0
          THEN Begin(s, "getUserData", body, "done", Resp(400, "ID do usuario e obrigatorio"))
          ELSE Begin(s, "getUserData", body, "ud_select", NoResp)
    /\ UNCHANGED <<pre_cadastros, parceiros, nextPreId, nextParceiroId, abandoned>>
    /\ UNCHANGED <<execVars, operVars, normVars>>

\* SELECT id, nome, email, cpf, created_at FROM parceiros WHERE id = ? LIMIT 1
GetUserDataSelect(s) ==
    /\ reqs[s].op = "getUserData"
    /\ reqs[s].pc = "ud_select"
    /\ LET id == reqs[s].body.userId
       IN  \/ \E how \in ReadFailures : Done(s, Resp500("Erro interno", how))
           \/ IF id \notin DOMAIN parceiros
              THEN Done(s, Resp(404, "Usuario nao encontrado"))
              ELSE Done(s, [Resp(200, "") EXCEPT !.user = UserView(id, parceiros[id])])
    /\ UNCHANGED <<pre_cadastros, parceiros, nextPreId, nextParceiroId, started, abandoned>>
    /\ UNCHANGED <<execVars, operVars, normVars>>

\* ---- PUT /admin/parceiros/senha ----
AdminUpdateParceiroSenhaBodies ==
    { [NullBody EXCEPT !.adminId = i[1], !.parceiroId = i[2], !.novaSenha = i[3]] :
        i \in { <<1, 1, "s2">>, <<1, 2, "s2">>, <<1, 1, Null>>, <<9, 1, "s2">>, <<1, 9, "s2">> } }

AdminUpdateParceiroSenhaStart(s) ==
    /\ CanStart(s)
    /\ \E body \in AdminUpdateParceiroSenhaBodies :
          IF body.adminId = 0 \/ body.parceiroId = 0 \/ body.novaSenha = Null
          THEN Begin(s, "adminUpdateParceiroSenha", body, "done",
                     Resp(400, "ID do admin, do parceiro e nova senha sao obrigatorios"))
          ELSE Begin(s, "adminUpdateParceiroSenha", body, "rs_admin", NoResp)
    /\ UNCHANGED <<pre_cadastros, parceiros, nextPreId, nextParceiroId, abandoned>>
    /\ UNCHANGED <<execVars, operVars, normVars>>

\* SELECT id FROM admin WHERE id = ? LIMIT 1
AdminUpdateParceiroSenhaAdmin(s) ==
    /\ reqs[s].op = "adminUpdateParceiroSenha"
    /\ reqs[s].pc = "rs_admin"
    /\ \/ \E how \in ReadFailures : Done(s, Resp500("Erro interno", how))
       \/ IF reqs[s].body.adminId \notin Admins
          THEN Done(s, Resp(403, "Acesso negado"))
          ELSE reqs' = [reqs EXCEPT ![s].pc = "rs_check"]
    /\ UNCHANGED <<pre_cadastros, parceiros, nextPreId, nextParceiroId, started, abandoned>>
    /\ UNCHANGED <<execVars, operVars, normVars>>

\* SELECT id FROM parceiros WHERE id = ? LIMIT 1
AdminUpdateParceiroSenhaCheck(s) ==
    /\ reqs[s].op = "adminUpdateParceiroSenha"
    /\ reqs[s].pc = "rs_check"
    /\ \/ \E how \in ReadFailures : Done(s, Resp500("Erro interno", how))
       \/ IF reqs[s].body.parceiroId \notin DOMAIN parceiros
          THEN Done(s, Resp(404, "Parceiro nao encontrado"))
          ELSE reqs' = [reqs EXCEPT ![s].pc = "rs_update"]
    /\ UNCHANGED <<pre_cadastros, parceiros, nextPreId, nextParceiroId, started, abandoned>>
    /\ UNCHANGED <<execVars, operVars, normVars>>

\* UPDATE parceiros SET senha = ? WHERE id = ?
UpdateSenha(table, id, hash) ==
    [i \in DOMAIN table |-> IF i = id THEN [table[i] EXCEPT !.senha = hash] ELSE table[i]]

\* bcrypt.hash(novaSenha, 10), the UPDATE and the 200
AdminUpdateParceiroSenhaUpdate(s) ==
    /\ reqs[s].op = "adminUpdateParceiroSenha"
    /\ reqs[s].pc = "rs_update"
    /\ LET body == reqs[s].body
           hash == Hash(body.novaSenha)
       IN  \/ /\ parceiros' = UpdateSenha(parceiros, body.parceiroId, hash)
              /\ reqs' = [reqs EXCEPT ![s].pc = "done", ![s].writes = @ \cup {"update_senha"},
                                      ![s].resp = Resp(200, "Senha do parceiro alterada com sucesso")]
              /\ UNCHANGED abandoned
           \/ /\ Done(s, Resp500("Erro interno", "rejected"))
              /\ UNCHANGED <<parceiros, abandoned>>
           \/ /\ reqs' = [reqs EXCEPT ![s].pc = "done", ![s].writes = @ \cup {"update_senha"},
                                      ![s].resp = Resp500("Erro interno", "lost")]
              /\ abandoned' = abandoned \cup
                    {Statement("update_senha", body.parceiroId, NullPre,
                               [NullParceiro EXCEPT !.senha = hash])}
              /\ UNCHANGED parceiros
    /\ UNCHANGED <<pre_cadastros, nextPreId, nextParceiroId, started>>
    /\ UNCHANGED <<execVars, operVars, normVars>>

\* a pre-registration ready to be promoted; no partner yet, or one of cadastro
InitSenha ==
    /\ ExecIdle
    /\ norm = NoNorm
    /\ pre_cadastros \in InitialPreCadastros \ {EmptyTable}
    /\ parceiros \in InitialParceiros
    /\ nextPreId = Cardinality(DOMAIN pre_cadastros) + 1
    /\ nextParceiroId = Cardinality(DOMAIN parceiros) + 1
    /\ reqs = [s \in Slots |-> IdleReq]
    /\ started = 0
    /\ abandoned = {}
    /\ operacoes = EmptyTable
    /\ nextOperacaoId = 1
    /\ abandonedOper = {}

NextSenha ==
    \/ \E s \in Slots : TransformarStart(s)
    \/ \E s \in Slots : TransformarAdmin(s)
    \/ \E s \in Slots : TransformarLoad(s)
    \/ \E s \in Slots : TransformarCheck(s)
    \/ \E s \in Slots : TransformarInsert(s)
    \/ \E s \in Slots : TransformarDelete(s)
    \/ \E s \in Slots : AdminListParceirosStart(s)
    \/ \E s \in Slots : AdminListParceirosAdmin(s)
    \/ \E s \in Slots : AdminListParceirosSelect(s)
    \/ \E s \in Slots : AdminListParceirosCount(s)
    \/ \E s \in Slots : AdminGetParceiroStart(s)
    \/ \E s \in Slots : AdminGetParceiroAdmin(s)
    \/ \E s \in Slots : AdminGetParceiroSelect(s)
    \/ \E s \in Slots : LoginStart(s)
    \/ \E s \in Slots : LoginSelect(s)
    \/ \E s \in Slots : GetUserDataStart(s)
    \/ \E s \in Slots : GetUserDataSelect(s)
    \/ \E s \in Slots : AdminUpdateParceiroSenhaStart(s)
    \/ \E s \in Slots : AdminUpdateParceiroSenhaAdmin(s)
    \/ \E s \in Slots : AdminUpdateParceiroSenhaCheck(s)
    \/ \E s \in Slots : AdminUpdateParceiroSenhaUpdate(s)
    \/ StoreExecutesAbandoned

\* the promotion and the requests that read parceiros
SpecSenha == InitSenha /\ [][NextSenha]_vars

(***************************************************************************)
(* The field normalizers of criarOperacao and the conversions of           *)
(* atualizarOperacao, applied to one inbound field value                   *)
(***************************************************************************)
\* longest string of the enumerated inbound strings
MaxLen == 4

Digits == {"0", "1", "2", "3", "4", "5", "6", "7", "8", "9"}

DigitValue(c) ==
    CASE c = "0" -> 0 [] c = "1" -> 1 [] c = "2" -> 2 [] c = "3" -> 3 [] c = "4" -> 4
      [] c = "5" -> 5 [] c = "6" -> 6 [] c = "7" -> 7 [] c = "8" -> 8 [] c = "9" -> 9

DigitChar(n) == CHOOSE c \in Digits : DigitValue(c) = n

RECURSIVE DigitsValue(_)
DigitsValue(ds) ==
    IF ds = << >> THEN 0
    ELSE 10 * DigitsValue(SubSeq(ds, 1, Len(ds) - 1)) + DigitValue(ds[Len(ds)])

RECURSIVE NatToChars(_)
NatToChars(n) ==
    IF n < 10 THEN <<DigitChar(n)>> ELSE NatToChars(n \div 10) \o <<DigitChar(n % 10)>>

\* String(val)
StringOf(val) ==
    CASE val.t = "string" -> val.s
      [] val.t = "null" -> <<"n", "u", "l", "l">>
      [] val.t = "undefined" -> <<"u", "n", "d", "e", "f", "i", "n", "e", "d">>
      [] val.t = "NaN" -> <<"N", "a", "N">>
      [] val.t = "boolean" -> IF val.b THEN <<"t", "r", "u", "e">>
                                       ELSE <<"f", "a", "l", "s", "e">>
      [] val.t = "number" -> (IF val.neg THEN <<"-">> ELSE << >>)
                             \o NatToChars(val.ip)
                             \o (IF val.fp = << >> THEN << >> ELSE <<".">> \o val.fp)

RECURSIVE TrimStart(_)
TrimStart(s) == IF s # << >> /\ s[1] = " " THEN TrimStart(Tail(s)) ELSE s

RECURSIVE TrimEnd(_)
TrimEnd(s) ==
    IF s # << >> /\ s[Len(s)] = " " THEN TrimEnd(SubSeq(s, 1, Len(s) - 1)) ELSE s

\* s.trim()
Trim(s) == TrimEnd(TrimStart(s))

\* s.includes(c)
Includes(s, c) == \E i \in DOMAIN s : s[i] = c

\* s.replace(/[^0-9.,-]/g, '')
KeepMoneyChars(s) == SelectSeq(s, LAMBDA c : c \in Digits \cup {".", ",", "-"})

\* s.replace(/\./g, '')
RemoveDots(s) == SelectSeq(s, LAMBDA c : c # ".")

\* s.replace(/,/g, '.')
CommasToDots(s) == [i \in DOMAIN s |-> IF s[i] = "," THEN "." ELSE s[i]]

\* number of digits of s from position i on
RECURSIVE DigitRun(_, _)
DigitRun(s, i) == IF i <= Len(s) /\ s[i] \in Digits THEN 1 + DigitRun(s, i + 1) ELSE 0

\* parseFloat of a string: leading white space is skipped, then the longest
\* prefix [+-] digits [. digits] or [+-] . digits is read; NaN when there is
\* none.  (No inbound string here has an exponent or spells Infinity after
\* its sign.)
ParseFloatString(s0) ==
    LET s == TrimStart(s0)
        neg == Len(s) >= 1 /\ s[1] = "-"
        a == IF Len(s) >= 1 /\ s[1] \in {"-", "+"} THEN 2 ELSE 1
        ni == DigitRun(s, a)
        dot == a + ni <= Len(s) /\ s[a + ni] = "."
        nf == IF dot THEN DigitRun(s, a + ni + 1) ELSE 0
    IN  IF ni = 0 /\ nf = 0 THEN NaN
        ELSE Num(neg, DigitsValue(SubSeq(s, a, a + ni - 1)),
                 SubSeq(s, a + ni + 1, a + ni + nf))

\* parseFloat(val): the argument is first converted to a string
ParseFloat(val) == ParseFloatString(StringOf(val))

\* typeof val === 'number' && isFinite(val)
IsFiniteNumber(val) == val.t = "number"

\* as normalizeMoney, but every dot is taken for a thousands separator and a
\* number is read again from its string
NormalizeMoneyDots(val, fallback) ==
    IF val.t \in {"null", "undefined"} THEN fallback
    ELSE LET s == Trim(StringOf(val))
         IN  IF s = << >> THEN fallback
             ELSE LET n == ParseFloatString(CommasToDots(RemoveDots(KeepMoneyChars(s))))
                  IN  IF IsFiniteNumber(n) THEN n ELSE fallback

NormalizeMoney(val, fallback) ==
    IF val.t \in {"null", "undefined"} THEN fallback
    ELSE IF IsFiniteNumber(val) THEN val
    ELSE LET s == Trim(StringOf(val))
         IN  IF s = << >> THEN fallback
             ELSE LET kept == KeepMoneyChars(s)
                      t == IF Includes(kept, ",") THEN CommasToDots(RemoveDots(kept)) ELSE kept
                      n == ParseFloatString(t)
                  IN  IF IsFiniteNumber(n) THEN n ELSE fallback

One == Num(FALSE, 1, << >>)
Zero == Num(FALSE, 0, << >>)

\* the letter a with a tilde is the one character "a~"
Truthy == {Str(<<"1">>), Str(<<"t", "r", "u", "e">>), Str(<<"o", "n">>), Str(<<"y", "e", "s">>),
           Str(<<"s", "i", "m">>), One, Bool(TRUE)}
Falsy == {Str(<<"0">>), Str(<<"f", "a", "l", "s", "e">>), Str(<<"o", "f", "f">>), Str(<<"n", "o">>),
          Str(<<"n", "a", "o">>), Str(<<"n", "a~", "o">>), Zero, Bool(FALSE)}

LowerChar(c) ==
    CASE c = "A" -> "a" [] c = "E" -> "e" [] c = "I" -> "i" [] c = "M" -> "m"
      [] c = "N" -> "n" [] c = "O" -> "o" [] c = "R" -> "r" [] c = "S" -> "s"
      [] c = "T" -> "t" [] c = "U" -> "u" [] OTHER -> c

\* val.toLowerCase() of a string value
ToLowerCaseStr(val) == Str([i \in DOMAIN val.s |-> LowerChar(val.s[i])])

NormalizeBool(val, fallback) ==
    IF val \in Truthy THEN One
    ELSE IF val.t = "string" /\ ToLowerCaseStr(val) \in Truthy THEN One
    ELSE IF val \in Falsy THEN Zero
    ELSE IF val.t = "string" /\ ToLowerCaseStr(val) \in Falsy THEN Zero
    ELSE fallback

\* the condition of val ? 1 : 0
ToBoolean(val) ==
    CASE val.t \in {"null", "undefined", "NaN"} -> FALSE
      [] val.t = "boolean" -> val.b
      [] val.t = "number" -> val # Zero
      [] val.t = "string" -> val.s # << >>

MoneyFields == {"imovel_valor_estimado", "operacao_valor_imovel", "operacao_valor_pretendido"}
BoolFields == {"cliente_casado", "aceite_lgpd", "aceite_declaracao"}

\* field.includes('valor_')
IncludesValor(field) == field \in MoneyFields

\* the fallback criarOperacao gives normalizeMoney for the field
MoneyFallback(field) ==
    IF field = "operacao_valor_pretendido" THEN Num(FALSE, 50000, << >>)
    ELSE Num(FALSE, 100000, << >>)

\* what criarOperacao binds to the column of the INSERT
CriarOperacaoValue(field, val) ==
    IF field \in MoneyFields THEN NormalizeMoney(val, MoneyFallback(field))
    ELSE NormalizeBool(val, Zero)

\* what atualizarOperacao binds to the column of the UPDATE; Undefined when
\* the column is left out of the SET
AtualizarOperacaoValue(field, val) ==
    IF val = Undefined THEN Undefined
    ELSE IF IncludesValor(field) THEN ParseFloat(val)
    ELSE IF field \in BoolFields THEN (IF ToBoolean(val) THEN One ELSE Zero)
    ELSE val

\* characters of the enumerated inbound strings
MoneyAlphabet == {"0", "1", ".", ",", "-", "$"}

InboundStrings ==
    UNION {[1..k -> MoneyAlphabet] : k \in 0..MaxLen}
    \cup {<<"R", "$", " ", "1", ".", "2", "3", "4", ",", "5", "6">>,
          <<"1", ".", "2", "3", "4", ",", "5", "6">>, <<" ", "5", "0", " ">>, <<" ">>,
          <<"s", "i", "m">>, <<"S", "I", "M">>, <<"n", "a", "o">>, <<"N", "A", "O">>,
          <<"n", "a~", "o">>, <<"t", "r", "u", "e">>, <<"f", "a", "l", "s", "e">>,
          <<"o", "n">>, <<"o", "f", "f">>, <<"y", "e", "s">>, <<"n", "o">>, <<"x">>}

InboundValues ==
    {Str(s) : s \in InboundStrings}
    \cup {JsNull, Undefined, Bool(TRUE), Bool(FALSE), Zero, One, Num(FALSE, 2, << >>),
          Num(TRUE, 5, << >>), Num(FALSE, 1, <<"5">>), Num(FALSE, 250000, << >>)}

\* a request body with one of the fields
InitNorm ==
    /\ ExecIdle
    /\ DbIdle
    /\ norm \in {[NoNorm EXCEPT !.pc = "inbound", !.field = f, !.val = v] :
                    f \in MoneyFields \cup BoolFields, v \in InboundValues}

\* criarOperacao normalizes the field for its INSERT
CriarOperacaoNormalizes ==
    /\ norm.pc = "inbound"
    /\ norm' = [norm EXCEPT !.pc = "criado", !.criado = CriarOperacaoValue(norm.field, norm.val)]
    /\ UNCHANGED <<execVars, dbVars, operVars>>

\* atualizarOperacao converts the same inbound value for its UPDATE
AtualizarOperacaoConverts ==
    /\ norm.pc = "criado"
    /\ norm' = [norm EXCEPT !.pc = "atualizado",
                            !.atualizado = AtualizarOperacaoValue(norm.field, norm.val)]
    /\ UNCHANGED <<execVars, dbVars, operVars>>

\* the normalizer of criarOperacao applied to its own result
NormalizesAgain ==
    /\ norm.pc = "atualizado"
    /\ norm' = [norm EXCEPT !.pc = "again", !.again = CriarOperacaoValue(norm.field, norm.criado)]
    /\ UNCHANGED <<execVars, dbVars, operVars>>

NextNorm ==
    \/ CriarOperacaoNormalizes
    \/ AtualizarOperacaoConverts
    \/ NormalizesAgain

SpecNorm == InitNorm /\ [][NextNorm]_vars

(***************************************************************************)
(* Claims about the executor (checked under SpecExec)                      *)
(***************************************************************************)
Finished == qpc \in {"returned", "thrown"}

Attempts == 1..Len(attemptLog)

Failed(k) == attemptLog[k].result # Ok /\ attemptLog[k].result # Pending

\* C1: when the first attempt fails with a transient error and the store
\* would answer a further call successfully, queryWithTimeout ends by
\* returning the successful result, not by throwing.
C1_TransientRecovered ==
    (Finished /\ Len(attemptLog) >= 1 /\ IsTransient(attemptLog[1].result) /\ storeNext = Ok)
        => (qpc = "returned" /\ outcome = Ok)

\* C2: the number of invocations of the wrapped operation, and the number of
\* store calls, never exceed attempts + 1.
C2_AttemptsBounded ==
    /\ Len(attemptLog) <= DefaultAttempts + 1
    /\ storeCalls <= DefaultAttempts + 1

C2_Witness ==
    qpc = "thrown" /\ Len(attemptLog) = DefaultAttempts + 1 /\ storeCalls >= 1

\* C3: an attempt that fails with an error not classified transient is the
\* last attempt, no delay follows it, and withRetries throws that error.
C3_PermanentAborts ==
    \A k \in Attempts :
        (Failed(k) /\ ~IsTransient(attemptLog[k].result))
            => /\ k = Len(attemptLog)
               /\ Len(delays) = k - 1
               /\ qpc = "thrown"
               /\ outcome = attemptLog[k].result

C3_Witness ==
    /\ qpc = "thrown"
    /\ Len(attemptLog) = 1
    /\ attemptLog[1].result.code = "ER_DUP_ENTRY"
    /\ delays = << >>

\* C4: when every attempt fails with a transient error, there are exactly
\* attempts retries after the first attempt, retry i (i = 0, 1, ...) starts
\* initialDelay * 2^i after the failure before it, the delays grow strictly,
\* and the error thrown is that of the last attempt.
C4_BackoffExhausted ==
    (qpc = "thrown" /\ \A k \in Attempts : IsTransient(attemptLog[k].result))
        => /\ Len(attemptLog) = DefaultAttempts + 1
           /\ Len(delays) >= DefaultAttempts
           /\ \A i \in 0..(DefaultAttempts - 1) :
                /\ delays[i + 1] = DefaultInitialDelay * Pow2(i)
                /\ attemptLog[i + 2].start = attemptLog[i + 1].settled + DefaultInitialDelay * Pow2(i)
                /\ i >= 1 => delays[i] < delays[i + 1]
           /\ outcome = attemptLog[Len(attemptLog)].result

C4_Witness ==
    /\ qpc = "thrown"
    /\ Len(attemptLog) = DefaultAttempts + 1
    /\ \A k \in Attempts : IsTransient(attemptLog[k].result)

\* C5: every attempt, retries included, races an operation and a timer of
\* its own: the timer it races was armed when the attempt started, and the
\* operation it races was issued for it.
C5_TimerPerAttempt ==
    \A k \in Attempts :
        /\ attemptLog[k].timerArmedAt = attemptLog[k].start
        /\ attemptLog[k].storeCall = k

\* C6: an attempt that fails because the executor's timer fired is
\* classified transient and retried.
C6_TimeoutRetried ==
    \A k \in Attempts :
        (attemptLog[k].result = TimeoutError /\ k <= DefaultAttempts)
            => /\ IsTransient(TimeoutError)
               /\ qpc # "thrown" \/ Len(attemptLog) > k

\* the five transient conditions, as the driver reports them in err.code
TransientCodes ==
    {"ETIMEDOUT", "ECONNRESET", "EHOSTUNREACH", "ER_LOCK_DEADLOCK", "PROTOCOL_CONNECTION_LOST"}

\* C7: an error is classified transient exactly when it carries one of the
\* five transient conditions, also when only its code carries it.
C7_ClassifierExact ==
    \A k \in Attempts :
        Failed(k) => (IsTransient(attemptLog[k].result) <=> attemptLog[k].result.code \in TransientCodes)

(***************************************************************************)
(* Claims about the promotion (checked under Spec)                         *)
(***************************************************************************)
Answered(s, status) ==
    reqs[s].op = "transformar" /\ reqs[s].pc = "done" /\ reqs[s].resp.status = status

CreatedBy(serial) == {i \in DOMAIN parceiros : parceiros[i].by = serial}

C9_ConflictLeavesTables ==
    [][\A s \in Slots :
          /\ (/\ reqs[s].op = "transformar"
              /\ reqs[s].pc # "done"
              /\ reqs'[s].pc = "done"
              /\ reqs'[s].resp.status = 409)
                => /\ pre_cadastros' = pre_cadastros
                   /\ parceiros' = parceiros
                   /\ abandoned' = abandoned
                   /\ reqs[s].writes = {}
                   /\ reqs'[s].writes = {}
                   /\ reqs'[s].resp.existingParceiroId \in DOMAIN parceiros
                   /\ LET e == parceiros[reqs'[s].resp.existingParceiroId]
                          pre == reqs[s].preCadastro
                      IN  \/ reqs'[s].resp.field = "cpf" /\ e.cpf = pre.cpf
                          \/ reqs'[s].resp.field = "email" /\ e.email = pre.email
          /\ (/\ reqs[s].op = "transformar"
              /\ reqs[s].pc = "t_check"
              /\ reqs'[s].pc = "t_insert")
                => ParceirosWith(reqs[s].preCadastro.cpf, reqs[s].preCadastro.email) = {}
      ]_vars

C9_Witness ==
    \E s \in Slots :
        /\ Answered(s, 409)
        /\ reqs[s].resp.field = "email"
        /\ reqs[s].resp.existingParceiroId \in DOMAIN parceiros
        /\ reqs[s].body.preCadastroId \in DOMAIN pre_cadastros

\* C10: a promotion whose INSERT succeeded and whose DELETE failed answers
\* with an error of its own, not with the generic failure of the handler.
C10_ReconciliationSurfaced ==
    \A s \in Slots :
        (reqs[s].op = "transformar" /\ reqs[s].pc = "done" /\ reqs[s].insertId # 0
            /\ reqs[s].resp.status # 200)
            => reqs[s].resp.message # "Erro interno"

\* C11: no two rows of parceiros have the same cpf or the same e-mail.
C11_UniqueIdentity ==
    \A i, j \in DOMAIN parceiros :
        i # j => /\ parceiros[i].cpf # parceiros[j].cpf
                 /\ parceiros[i].email # parceiros[j].email

\* C13: after loading the pre-registration, adminTransformarParceiro answers
\* 404 when no row has the id and 400 when the row lacks nome_completo, cpf
\* or email, and goes on otherwise; a request that answers 404 or 400 has
\* inserted no partner and deleted no pre-registration.
C13_NotFoundIncomplete ==
    [][\A s \in Slots :
          (/\ reqs[s].op = "transformar"
           /\ reqs[s].pc = "t_load"
           /\ reqs'[s].pc # "t_load"
           /\ reqs'[s].resp.status # 500)
             => LET id == reqs[s].body.preCadastroId
                    lacks == \/ pre_cadastros[id].nome_completo = Null
                             \/ pre_cadastros[id].cpf = Null
                             \/ pre_cadastros[id].email = Null
                IN  /\ id \notin DOMAIN pre_cadastros
                        => reqs'[s].pc = "done" /\ reqs'[s].resp.status = 404
                    /\ (id \in DOMAIN pre_cadastros /\ lacks)
                        => reqs'[s].pc = "done" /\ reqs'[s].resp.status = 400
                    /\ (id \in DOMAIN pre_cadastros /\ ~lacks)
                        => reqs'[s].pc = "t_check"
                    /\ reqs'[s].pc = "done"
                        => /\ pre_cadastros' = pre_cadastros
                           /\ parceiros' = parceiros
                           /\ abandoned' = abandoned
                           /\ reqs'[s].writes = {}
      ]_vars

C13_Witness ==
    \E s \in Slots :
        /\ Answered(s, 400)
        /\ reqs[s].resp.message = "Pre-cadastro incompleto"
        /\ reqs[s].body.preCadastroId \in DOMAIN pre_cadastros
        /\ pre_cadastros[reqs[s].body.preCadastroId].email = Null

\* the partners that have the cpf or the cnpj of a submission
ParceirosWithCpfOrCnpj(cpf, cnpj) ==
    {i \in DOMAIN parceiros :
        \/ cpf # Null /\ parceiros[i].cpf = cpf
        \/ cnpj # Null /\ parceiros[i].cnpj = cnpj}

\* C14: preCadastro goes on to its INSERT only when neither a
\* pre-registration nor a partner has the submitted cpf or cnpj.
C14_ConflictRejected ==
    [][\A s \in Slots :
          (/\ reqs[s].op = "preCadastro"
           /\ reqs[s].pc = "pc_check"
           /\ reqs'[s].pc = "pc_insert")
             => /\ PreCadastrosWith(reqs[s].body.cpf, reqs[s].body.cnpj) = {}
                /\ ParceirosWithCpfOrCnpj(reqs[s].body.cpf, reqs[s].body.cnpj) = {}
      ]_vars

\* C15: no two rows of pre_cadastros have the same non-null cpf or the same
\* non-null cnpj.
C15_UniquePreCadastro ==
    \A i, j \in DOMAIN pre_cadastros :
        i # j => /\ pre_cadastros[i].cpf = Null \/ pre_cadastros[i].cpf # pre_cadastros[j].cpf
                 /\ pre_cadastros[i].cnpj = Null \/ pre_cadastros[i].cnpj # pre_cadastros[j].cnpj

\* C18: a row leaves pre_cadastros only in the step in which a promotion of
\* that row answers 200.
C18_RemovedOnlyBySuccess ==
    [][\A id \in DOMAIN pre_cadastros :
          id \notin DOMAIN pre_cadastros'
             => \E s \in Slots :
                   /\ reqs[s].op = "transformar"
                   /\ reqs[s].pc = "t_delete"
                   /\ reqs[s].body.preCadastroId = id
                   /\ reqs'[s].pc = "done"
                   /\ reqs'[s].resp.status = 200
      ]_vars

\* C19: every row of operacoes references an existing partner, and a
\* criarOperacao whose parceiro_id matched no partner at its check answers an
\* error and has issued no INSERT.
C19_PartnerExists ==
    /\ \A o \in DOMAIN operacoes : operacoes[o].parceiro_id \in DOMAIN parceiros
    /\ \A st \in abandonedOper :
          st.kind = "insert" => st.row.parceiro_id \in DOMAIN parceiros
    /\ \A s \in Slots :
          (/\ reqs[s].op = "criarOperacao"
           /\ reqs[s].pc = "done"
           /\ reqs[s].resp.message = "Usuario nao encontrado")
             => /\ reqs[s].resp.status = 400
                /\ reqs[s].writes = {}
                /\ reqs[s].insertId = 0

C19_Witness ==
    /\ \E s \in Slots :
          /\ reqs[s].op = "criarOperacao"
          /\ reqs[s].pc = "done"
          /\ reqs[s].resp.status = 400
          /\ reqs[s].resp.message = "Usuario nao encontrado"
          /\ reqs[s].body.parceiro_id \notin DOMAIN parceiros
    /\ \E s \in Slots :
          /\ reqs[s].op = "criarOperacao"
          /\ reqs[s].resp.status = 201
          /\ reqs[s].insertId \in DOMAIN operacoes

\* C20: status_operacao of every row of operacoes is one of rascunho,
\* recebida, em_analise, pendencia_docs, aprovada, recusada, cancelada.
C20_StatusEnumerated ==
    \A o \in DOMAIN operacoes :
        operacoes[o].status_operacao \in
            {"rascunho", "recebida", "em_analise", "pendencia_docs", "aprovada", "recusada",
             "cancelada"}

\* the rule of the claim: 'reprovado' on an answer 'NAO', else 'pre-aprovado'
C16_Rule(resp_tipo_cnpj, resp_perfil_clientes) ==
    IF "NAO" \in {resp_tipo_cnpj, resp_perfil_clientes} THEN "reprovado" ELSE "pre-aprovado"

\* C16: the row preCadastro creates and the row the back-fill of
\* adminListPreCadastros fills carry 'reprovado' if resp_tipo_cnpj or
\* resp_perfil_clientes is 'NAO' and 'pre-aprovado' otherwise, and the
\* back-fill gives a row what preCadastro computes for the same answers.
C16_EligibilityAgrees ==
    [][\A s \in Slots :
          /\ (/\ reqs[s].op = "preCadastro"
              /\ reqs[s].pc = "pc_insert"
              /\ reqs'[s].resp.status = 201)
                => pre_cadastros'[reqs'[s].insertId].status_elegibilidade
                      = C16_Rule(reqs[s].body.resp_tipo_cnpj, reqs[s].body.resp_perfil_clientes)
          /\ (/\ reqs[s].op = "adminListPreCadastros"
              /\ reqs[s].pc = "l_loop")
                => \A id \in DOMAIN reqs[s].rows :
                      (/\ reqs[s].rows[id].status_elegibilidade = Null
                       /\ reqs'[s].rows[id].status_elegibilidade # Null)
                         => LET pre == reqs[s].rows[id]
                                filled == reqs'[s].rows[id].status_elegibilidade
                            IN  /\ filled = C16_Rule(pre.resp_tipo_cnpj, pre.resp_perfil_clientes)
                                /\ filled = EligibilityStatus(pre.resp_tipo_cnpj,
                                                              pre.resp_perfil_clientes)
                                /\ id \in DOMAIN pre_cadastros'
                                      => pre_cadastros'[id].status_elegibilidade = filled
      ]_vars

C16_Witness ==
    /\ \E s \in Slots :
          /\ reqs[s].op = "adminListPreCadastros"
          /\ reqs[s].pc = "done"
          /\ reqs[s].resp.status = 200
          /\ \E id \in DOMAIN reqs[s].resp.preCadastros :
                /\ reqs[s].resp.preCadastros[id].resp_tipo_cnpj = "SIM"
                /\ reqs[s].resp.preCadastros[id].resp_perfil_clientes = "NAO"
                /\ reqs[s].resp.preCadastros[id].status_elegibilidade = "reprovado"
                /\ "update_pre" \in reqs[s].writes
    /\ \E s \in Slots :
          /\ reqs[s].op = "preCadastro"
          /\ reqs[s].resp.status = 201
          /\ reqs[s].body.resp_tipo_cnpj = "NAO"
          /\ reqs[s].insertId \in DOMAIN pre_cadastros
          /\ pre_cadastros[reqs[s].insertId].status_elegibilidade = "reprovado"

\* C17: adminUpdatePreCadastroStatus answers 400 and writes nothing for every
\* status other than 'reprovado'; no row of pre_cadastros ever has status
\* 'aprovado', and a partner has it only if a promotion created the row.
C17_NeverApprovedByUpdate ==
    [][/\ \A i \in DOMAIN pre_cadastros' : pre_cadastros'[i].status_elegibilidade # "aprovado"
       /\ \A i \in DOMAIN parceiros' :
             parceiros'[i].status_elegibilidade = "aprovado"
                => parceiros'[i].senha_temp \in TempPasswords
       /\ \A st \in abandoned' :
             st.kind = "update_pre" => st.pre.status_elegibilidade # "aprovado"
       /\ \A s \in Slots :
             (/\ reqs'[s].op = "adminUpdatePreCadastroStatus"
              /\ reqs'[s] # reqs[s]
              /\ reqs'[s].body.status # "reprovado")
                => /\ reqs'[s].pc = "done"
                   /\ reqs'[s].resp.status = 400
                   /\ reqs'[s].writes = {}
                   /\ pre_cadastros' = pre_cadastros
                   /\ abandoned' = abandoned
      ]_vars

C17_Witness ==
    /\ \E s \in Slots :
          /\ reqs[s].op = "adminUpdatePreCadastroStatus"
          /\ reqs[s].body.status = "aprovado"
          /\ reqs[s].pc = "done"
          /\ reqs[s].resp.status = 400
          /\ reqs[s].body.preCadastroId \in DOMAIN pre_cadastros
    /\ \E s \in Slots :
          /\ reqs[s].op = "adminUpdatePreCadastroStatus"
          /\ reqs[s].resp.status = 200
          /\ pre_cadastros[reqs[s].body.preCadastroId].status_elegibilidade = "reprovado"

\* C12: no response of adminListParceiros, adminGetParceiro, login or
\* getUserData carries the temporary credential of a partner.
C12_DisclosedOnce ==
    \A s \in Slots :
        (/\ reqs[s].op \in {"adminListParceiros", "adminGetParceiro", "login", "getUserData"}
         /\ reqs[s].pc = "done")
           => LET temps == {parceiros[i].senha_temp : i \in DOMAIN parceiros} \ {Null}
              IN  /\ reqs[s].resp.parceiro.senha \notin temps
                  /\ reqs[s].resp.user.senha \notin temps
                  /\ \A i \in DOMAIN reqs[s].resp.parceiros :
                        reqs[s].resp.parceiros[i].senha \notin temps

\* C21: once enviado_em of an operation is set, no later write changes it.
C21_NoRestamp ==
    [][\A o \in DOMAIN operacoes :
          operacoes[o].enviado_em # 0 => operacoes'[o].enviado_em = operacoes[o].enviado_em
      ]_vars

\* the columns of row o that a SET list leaves out keep their values; stamp
\* tells whether enviado_em may change with a status 'recebida'
C23_Frame(o, set, stamp) ==
    /\ set.tipo_operacao = Null => operacoes'[o].tipo_operacao = operacoes[o].tipo_operacao
    /\ set.status_operacao = Null => operacoes'[o].status_operacao = operacoes[o].status_operacao
    /\ (~stamp \/ set.status_operacao # "recebida")
          => operacoes'[o].enviado_em = operacoes[o].enviado_em
    /\ operacoes'[o].parceiro_id = operacoes[o].parceiro_id

\* the UPDATE of an atualizarOperacao request, or the store executing one
\* whose wait was given up, touches row id only, within C23_Frame
C23_Step(stamp) ==
    /\ \A s \in Slots :
          (/\ reqs[s].op = "atualizarOperacao"
           /\ reqs[s].pc = "u_update"
           /\ reqs'[s].pc = "done")
             => /\ DOMAIN operacoes' = DOMAIN operacoes
                /\ \A o \in DOMAIN operacoes :
                      IF o = reqs[s].body.operacao_id
                      THEN C23_Frame(o, [tipo_operacao |-> reqs[s].body.tipo_operacao,
                                         status_operacao |-> reqs[s].body.status_operacao], stamp)
                      ELSE operacoes'[o] = operacoes[o]
    /\ \A st \in abandonedOper :
          (/\ st.kind = "update"
           /\ st.parceiro_id # 0
           /\ abandonedOper' = abandonedOper \ {st})
             => /\ DOMAIN operacoes' = DOMAIN operacoes
                /\ \A o \in DOMAIN operacoes :
                      IF o = st.id
                      THEN C23_Frame(o, st.set, stamp)
                      ELSE operacoes'[o] = operacoes[o]

\* C23 as stated: an atualizarOperacao request changes only the columns named
\* in its body; every other column of the row, enviado_em included, and every
\* other row keep their values.
C23_FrameExact == [][C23_Step(FALSE)]_vars

\* C23, amended: an atualizarOperacao request changes only the columns named
\* in its body and, when the body sets status_operacao to 'recebida',
\* enviado_em; every other column and every other row keep their values.
C23_FrameWithStamp == [][C23_Step(TRUE)]_vars

C23_Witness ==
    \E s \in Slots :
        /\ reqs[s].op = "atualizarOperacao"
        /\ reqs[s].pc = "done"
        /\ reqs[s].resp.status = 200
        /\ reqs[s].body.status_operacao = Null
        /\ reqs[s].body.tipo_operacao = "aquisicao_imovel"
        /\ operacoes[reqs[s].body.operacao_id].tipo_operacao = "aquisicao_imovel"
        /\ operacoes[reqs[s].body.operacao_id].status_operacao = "rascunho"

C26_LogPerRetry ==
    (Finished /\ Len(attemptLog) >= 1)
        => /\ Len(retryLog) = Len(attemptLog) - 1
           /\ Len(delays) = Len(attemptLog) - 1

\* C28: a status 'reprovado' of a pre-registration is not replaced: the
\* back-fill of adminListPreCadastros writes only to a row that still has no
\* status.
C28_BackfillKeepsStatus ==
    [][\A id \in DOMAIN pre_cadastros \cap DOMAIN pre_cadastros' :
          pre_cadastros[id].status_elegibilidade = "reprovado"
             => pre_cadastros'[id].status_elegibilidade = "reprovado"
      ]_vars

\* the partners that a finished promotion made out of pre-registration id,
\* which is still in pre_cadastros with no DELETE of it under way
LeftBehind(id) ==
    {p \in DOMAIN parceiros :
        /\ \A st \in abandoned : st.kind = "delete_pre" => st.id # id
        /\ parceiros[p].by # 0
        /\ parceiros[p].status_elegibilidade = "aprovado"
        /\ parceiros[p].cpf = pre_cadastros[id].cpf
        /\ parceiros[p].email = pre_cadastros[id].email
        /\ \A t \in Slots : reqs[t].serial = parceiros[p].by => reqs[t].pc = "done"}

\* C30: a promotion of a pre-registration whose partner an earlier promotion
\* inserted without removing the pre-registration is not answered with 409:
\* it goes on and can remove the pre-registration.
C30_RetryCompletes ==
    [][\A s \in Slots :
          (/\ reqs[s].op = "transformar"
           /\ reqs[s].pc = "t_check"
           /\ reqs[s].body.preCadastroId \in DOMAIN pre_cadastros
           /\ LeftBehind(reqs[s].body.preCadastroId) # {}
           /\ reqs'[s].pc = "done")
             => reqs'[s].resp.status # 409
      ]_vars

\* C29: the senha of a partner with a senha_temp verifies against it.
C29_TempVerifies ==
    \A i \in DOMAIN parceiros :
        parceiros[i].senha_temp # Null => Verify(parceiros[i].senha_temp, parceiros[i].senha)

\* C22: for every inbound value of a monetary or boolean field, the value
\* atualizarOperacao binds to the column is the one criarOperacao binds.
C22_SameCanonicalValue ==
    (norm.pc \in {"atualizado", "again"} /\ norm.val # Undefined) => norm.atualizado = norm.criado

\* a finite number that is not negative
NonNegativeNumber(v) == v.t = "number" /\ ~v.neg

\* C24: every number criarOperacao or atualizarOperacao binds to a monetary
\* column is finite and not negative (an UPDATE bound to NaN is refused by
\* the store and changes no row).
C24_MoneyNonNegative ==
    (norm.field \in MoneyFields) =>
        /\ (norm.pc \in {"criado", "atualizado", "again"} => NonNegativeNumber(norm.criado))
        /\ ((norm.pc \in {"atualizado", "again"} /\ norm.atualizado.t = "number")
               => NonNegativeNumber(norm.atualizado))

\* C25: normalizeMoney applied to its own result gives that result, and a
\* finite number comes back unchanged.
C25_MoneyIdempotent ==
    (norm.field \in MoneyFields) =>
        /\ (norm.pc = "again" => norm.again = norm.criado)
        /\ ((norm.pc # "inbound" /\ IsFiniteNumber(norm.val)) => norm.criado = norm.val)

\* a formatted string with a decimal comma was normalized, and normalized again
C25_Witness ==
    /\ norm.pc = "again"
    /\ norm.field \in MoneyFields
    /\ norm.val.t = "string"
    /\ Includes(norm.val.s, ",")
    /\ norm.criado # MoneyFallback(norm.field)
    /\ norm.criado.fp # << >>
    /\ norm.again = norm.criado

====
